---- MODULE Spec2Model ----
(***************************************************************************)
(* F1sh-Camera-TX (src/f1sh_camera_tx.c): the controller that keeps one    *)
(* GStreamer pipeline running and lets an HTTP API reconfigure it.         *)
(*                                                                         *)
(* Threads of the program:                                                 *)
(*   main      builds the first pipeline, starts the HTTP daemon, then     *)
(*             loops: rebuild when pipeline_is_restarting, else poll the   *)
(*             pipeline bus (main, lines 832-980);                         *)
(*   handlers  one libmicrohttpd thread per connection running             *)
(*             answer_to_connection (MHD_USE_THREAD_PER_CONNECTION);       *)
(*   probe     the streaming thread calling udpsink_probe_callback.        *)
(* data->state_mutex guards config, pipeline, bus, pipeline_is_restarting. *)
(***************************************************************************)
EXTENDS Integers, Sequences, FiniteSets, TLC

(***************************************************************************)
(* Bounds of the model.                                                    *)
(***************************************************************************)
MaxRequests == 2   \* HTTP requests accepted in one run
MaxFrames == 1     \* buffers counted between two statistics resets
MaxEvents == 1     \* bus messages popped in one run

Threads == {"h1", "h2"}  \* connection threads of the HTTP daemon

(***************************************************************************)
(* Program constants.                                                      *)
(***************************************************************************)
DEFAULT_HOST == "127.0.0.1"
DEFAULT_PORT == 5000
DEFAULT_SRC == "libcamerasrc"
DEFAULT_DEVICE == ""
DEFAULT_ENCODER == "v4l2h264enc"
DEFAULT_WIDTH == 1280
DEFAULT_HEIGHT == 720
DEFAULT_FRAMERATE == 60
DEFAULT_AUTOFOCUS == FALSE
DEFAULT_LENS_POSITION == 1

MHD_HTTP_OK == 200
MHD_HTTP_BAD_REQUEST == 400
MHD_HTTP_NOT_FOUND == 404

MinWidth == 320
MaxWidth == 4096
MinHeight == 240
MaxHeight == 2160
MinFramerate == 1
MaxFramerate == 120

\* The bounds the specification document states for the same fields.
SpecMaxWidth == 4608
SpecMaxHeight == 2592

\* The variant with a persisted configuration (src/unnamed/part_001).
PersistedDefaultFramerate == 30
PersistedMaxPort == 65535
PersistedMaxWidth == 4608
PersistedMaxHeight == 2592

(***************************************************************************)
(* Optional values: a NULL pointer is the empty sequence.                  *)
(***************************************************************************)
NULL == <<>>
Some(x) == <<x>>
Get(o) == o[1]

(***************************************************************************)
(* JSON values as jansson types them (json_is_string, json_is_integer,     *)
(* json_is_boolean, json_is_real); json_object_get gives NULL for a key    *)
(* that is absent or when the root is not an object.                       *)
(***************************************************************************)
JNull == [t |-> "null", v |-> 0]
JStr(s) == [t |-> "string", v |-> s]
\* A JSON integer is a json_int_t (64 bit): hi * 2^32 + v, with v the low 32
\* bits read as a signed number.
JInt64(h, i) == [t |-> "integer", hi |-> h, v |-> i]
JInt(i) == JInt64(0, i)
JBool(b) == [t |-> "boolean", v |-> b]
JReal(r) == [t |-> "real", v |-> r]

Fields ==
    {"host", "port", "src", "device", "encoder", "width", "height",
     "framerate", "autofocus", "lens_position"}

EmptyDoc == [f \in Fields |-> JNull]

\* json_integer_value(value) assigned to an int or gint keeps the low 32
\* bits.
ToGint(value) == value.v

\* A json_loadb that takes an empty buffer for an empty object.
JsonLoadbEmptyObject(body) ==
    IF body.kind \in {"object", "empty"}
    THEN Some([type |-> "object",
               fields |-> IF body.kind = "object" THEN body.doc ELSE EmptyDoc])
    ELSE IF body.kind = "array" THEN Some([type |-> "array", fields |-> EmptyDoc])
    ELSE NULL

\* json_loadb(buffer, size, 0, &error): NULL for an empty buffer, for text
\* that is not JSON and for a top-level scalar (no JSON_DECODE_ANY); else the
\* root, an object or an array.
JsonLoadb(body) ==
    IF body.kind = "object" THEN Some([type |-> "object", fields |-> body.doc])
    ELSE IF body.kind = "array" THEN Some([type |-> "array", fields |-> EmptyDoc])
    ELSE NULL

JsonObjectGet(root, key) ==
    IF root.type = "object" THEN root.fields[key] ELSE JNull

(***************************************************************************)
(* AppConfig and init_config.                                              *)
(***************************************************************************)
InitConfig ==
    [host |-> DEFAULT_HOST, port |-> DEFAULT_PORT, src_type |-> DEFAULT_SRC,
     device |-> DEFAULT_DEVICE, encoder_type |-> DEFAULT_ENCODER,
     width |-> DEFAULT_WIDTH, height |-> DEFAULT_HEIGHT,
     framerate |-> DEFAULT_FRAMERATE, autofocus |-> DEFAULT_AUTOFOCUS,
     lens_position |-> DEFAULT_LENS_POSITION]

InitStats == [total_bytes |-> 0, frame_count |-> 0]

(***************************************************************************)
(* process_config_update, field by field (lines 320-414).  m is the        *)
(* handler's view while it holds state_mutex: the configuration and the    *)
(* two locals needs_pipeline_rebuild and needs_udp_update.                 *)
(***************************************************************************)
MergeHost(m, root) ==
    LET value == JsonObjectGet(root, "host") IN
    IF value.t = "string" /\ m.config.host # value.v
    THEN [m EXCEPT !.config.host = value.v, !.needs_udp_update = TRUE]
    ELSE m

MergePort(m, root) ==
    LET value == JsonObjectGet(root, "port") IN
    IF value.t = "integer" /\ m.config.port # ToGint(value)
    THEN [m EXCEPT !.config.port = ToGint(value), !.needs_udp_update = TRUE]
    ELSE m

MergeSrc(m, root) ==
    LET value == JsonObjectGet(root, "src") IN
    IF value.t = "string" /\ m.config.src_type # value.v
    THEN [m EXCEPT !.config.src_type = value.v, !.needs_pipeline_rebuild = TRUE]
    ELSE m

\* No comparison with the current device: a present string always asks for
\* a rebuild (lines 349-355).
MergeDevice(m, root) ==
    LET value == JsonObjectGet(root, "device") IN
    IF value.t = "string"
    THEN [m EXCEPT !.config.device = value.v, !.needs_pipeline_rebuild = TRUE]
    ELSE m

MergeEncoder(m, root) ==
    LET value == JsonObjectGet(root, "encoder") IN
    IF value.t = "string" /\ m.config.encoder_type # value.v
    THEN [m EXCEPT !.config.encoder_type = value.v, !.needs_pipeline_rebuild = TRUE]
    ELSE m

WidthInRangeNoUpper(w) == w >= MinWidth
WidthInRange(w) == w >= MinWidth /\ w <= MaxWidth

HeightInRange(h) == h >= MinHeight /\ h <= MaxHeight

FramerateInRange(r) == r >= MinFramerate /\ r <= MaxFramerate

MergeWidth(m, root) ==
    LET value == JsonObjectGet(root, "width") IN
    IF value.t = "integer" /\ WidthInRange(ToGint(value))
       /\ ToGint(value) # m.config.width
    THEN [m EXCEPT !.config.width = ToGint(value), !.needs_pipeline_rebuild = TRUE]
    ELSE m

MergeHeight(m, root) ==
    LET value == JsonObjectGet(root, "height") IN
    IF value.t = "integer" /\ HeightInRange(ToGint(value))
       /\ ToGint(value) # m.config.height
    THEN [m EXCEPT !.config.height = ToGint(value), !.needs_pipeline_rebuild = TRUE]
    ELSE m

MergeFramerate(m, root) ==
    LET value == JsonObjectGet(root, "framerate") IN
    IF value.t = "integer" /\ FramerateInRange(ToGint(value))
       /\ ToGint(value) # m.config.framerate
    THEN [m EXCEPT !.config.framerate = ToGint(value),
                   !.needs_pipeline_rebuild = TRUE]
    ELSE m

MergeAutofocus(m, root) ==
    LET value == JsonObjectGet(root, "autofocus") IN
    IF value.t = "boolean" /\ value.v # m.config.autofocus
    THEN [m EXCEPT !.config.autofocus = value.v, !.needs_pipeline_rebuild = TRUE]
    ELSE m

\* json_real_value, or (gfloat)json_integer_value, of the value.
ToGfloat(value) == value.v

\* A real or an integer is stored; neither local flag is touched.
MergeLensPosition(m, root) ==
    LET value == JsonObjectGet(root, "lens_position") IN
    IF value.t = "real" \/ value.t = "integer"
    THEN [m EXCEPT !.config.lens_position = ToGfloat(value)]
    ELSE m

\* lines 320-337
MergeSinkFields(m, root) == MergePort(MergeHost(m, root), root)

\* lines 339-414
MergeStructuralFields(m, root) ==
    MergeLensPosition(
     MergeAutofocus(
      MergeFramerate(
       MergeHeight(
        MergeWidth(
         MergeEncoder(
          MergeDevice(
           MergeSrc(m, root), root), root), root), root), root), root), root)

\* The g_print warnings of lines 373-375, 384-386, 395-397: the fields of
\* the document the handler reports on its own console as invalid.
WarnedFields(root) ==
    {f \in {"width", "height", "framerate"} :
        LET value == JsonObjectGet(root, f) IN
        /\ value.t = "integer"
        /\ CASE f = "width" -> ~WidthInRange(ToGint(value))
             [] f = "height" -> ~HeightInRange(ToGint(value))
             [] f = "framerate" -> ~FramerateInRange(ToGint(value))}

(***************************************************************************)
(* Requests.  A request body is what the upload callbacks accumulated in   *)
(* con_info->json_data (lines 477-482).                                    *)
(***************************************************************************)
Doc(fs) == [f \in Fields |-> IF f \in DOMAIN fs THEN fs[f] ELSE JNull]

ObjectBody(doc) == [kind |-> "object", doc |-> doc]
ArrayBody == [kind |-> "array", doc |-> EmptyDoc]
EmptyBody == [kind |-> "empty", doc |-> EmptyDoc]
GarbageBody == [kind |-> "garbage", doc |-> EmptyDoc]
ScalarBody == [kind |-> "scalar", doc |-> EmptyDoc]

GetReq(url) == [method |-> "GET", url |-> url, body |-> EmptyBody]
PostReq(url, body) == [method |-> "POST", url |-> url, body |-> body]
NoReq == [method |-> "", url |-> "", body |-> EmptyBody]

\* The documents of the specification's scenarios and of the API test
\* script (src/unnamed/part_000, steps 5-7), on the default configuration.
ScenarioDocs ==
    { Doc([host |-> JStr("10.0.0.5")]),
      Doc([host |-> JStr("10.0.0.5"), port |-> JInt(5001)]),
      Doc([width |-> JInt(1920), height |-> JInt(1080)]),
      Doc([framerate |-> JInt(500)]),
      Doc([host |-> JStr("10.0.0.5"), device |-> JStr(DEFAULT_DEVICE)]),
      Doc([encoder |-> JStr("x264enc")]),
      Doc([host |-> JStr("10.0.0.5"), framerate |-> JInt(30)]),
      Doc([lens_position |-> JReal(0)]) }

ScenarioRequests ==
    {GetReq("/config")}
    \cup {PostReq("/config", ObjectBody(d)) : d \in ScenarioDocs}
    \cup {PostReq("/config", b) : b \in {EmptyBody, GarbageBody, ArrayBody}}

RespUpdated == "{\"status\":\"configuration updated\"}"
RespInvalidJson == "{\"error\":\"Invalid JSON\"}"

RespOk == "{\"status\":\"ok\"}"
RespNotFound == "{\"error\":\"Not Found\"}"

\* The response queued by send_json_response: the status, the text of a
\* fixed body, or the JSON object built from the configuration, from the
\* statistics or from the device list.
NoResp == [status |-> 0, text |-> "", config |-> NULL, stats |-> NULL,
           devices |-> NULL]

\* Per connection: where the handler thread is, the request, the parsed
\* root, the locals of process_config_update, the response queued.
\*   old   the configuration when the handler took state_mutex (old_host,
\*         old_port, old_width, ... of lines 313-318, kept for every field)
\*   idx   history: position of this update in the order of updates
\*   floor history: updates answered before this request arrived
IdleConn ==
    [pc |-> "idle", req |-> NoReq, root |-> NULL,
     needs_pipeline_rebuild |-> FALSE, needs_udp_update |-> FALSE,
     old |-> NULL, resp |-> NoResp, idx |-> 0, floor |-> 0]

\* The streaming thread outside udpsink_probe_callback.
\*   seen  history: the statistics when the thread took stats_mutex
IdleProbe == [pc |-> "idle", size |-> 0, seen |-> NULL]

VARIABLES
    config,                  \* data->config
    pipeline,                \* data->pipeline: NULL or the running pipeline
    bus,                     \* data->bus: NULL or a reference to the bus
    stats,                   \* data->stats
    pipeline_is_restarting,  \* data->pipeline_is_restarting
    should_terminate,        \* data->should_terminate
    state_mutex,             \* owner of data->state_mutex, or NULL
    daemon,                  \* the HTTP daemon is accepting connections
    mainpc,                  \* position of the main thread
    buildret,                \* the call site build_and_run_pipeline returns to
    conn,                    \* the connection threads
    nreq,                    \* requests accepted so far
    nevents,                 \* bus messages popped so far
    cycle,                   \* history: teardowns, builds, statistics resets
                             \* since the last restart request was taken
    unreleased,              \* history: elements the last build attempt
                             \* created and neither released nor gave away
    log,                     \* history: the configuration after each update
    acked,                   \* history: updates answered so far (index in log)
    config_file,             \* the file at data->config_file_path (the variant
                             \* with a persisted configuration): NULL when
                             \* there is none
    saved,                   \* what the last save_config_to_file returned
                             \* (FALSE before the first call)
    handles,                 \* history: the pipeline handles gst_pipeline_new
                             \* returned so far, each "live" or "destroyed"
    bus_ref,                 \* main's local `bus`: NULL or the bus it holds a
                             \* reference to for the poll
    reported,                \* history: the source of the state change last
                             \* printed by main (line 946), NULL before
    selection,               \* history (the variant with a persisted
                             \* configuration): the last choice of an encoder
    stats_mutex,             \* owner of data->stats.stats_mutex, or NULL
    probe                    \* the streaming thread inside
                             \* udpsink_probe_callback: its position and the
                             \* size of the buffer it is counting

vars ==
    <<config, pipeline, bus, stats, pipeline_is_restarting, should_terminate,
      state_mutex, daemon, mainpc, buildret, conn, nreq, nevents, cycle,
      unreleased, log, acked, config_file, saved, handles, bus_ref, reported,
      selection, stats_mutex, probe>>

mainVars ==
    <<pipeline, bus, stats, pipeline_is_restarting, should_terminate,
      daemon, mainpc, buildret, nevents, cycle, unreleased>>

\* unquiesced: a pipeline handle has been destroyed and the thread has not
\* slept the delay of line 530 since.
NoCycle == [teardowns |-> 0, builds |-> 0, resets |-> 0, unquiesced |-> FALSE]

\* Init with the HTTP daemon started before the first build.
InitDaemonStarted ==
    /\ config = InitConfig
    /\ pipeline = NULL
    /\ bus = NULL
    /\ stats = InitStats
    /\ pipeline_is_restarting = FALSE
    /\ should_terminate = FALSE
    /\ state_mutex = NULL
    /\ daemon = TRUE
    /\ mainpc = "start"
    /\ buildret = "start"
    /\ conn = [t \in Threads |-> IdleConn]
    /\ nreq = 0
    /\ nevents = 0
    /\ cycle = NoCycle
    /\ unreleased = {}
    /\ log = <<InitConfig>>
    /\ acked = 1
    /\ config_file = NULL
    /\ saved = FALSE
    /\ handles = <<>>
    /\ bus_ref = NULL
    /\ reported = NULL
    /\ selection = NULL
    /\ stats_mutex = NULL
    /\ probe = IdleProbe

Init ==
    /\ config = InitConfig
    /\ pipeline = NULL
    /\ bus = NULL
    /\ stats = InitStats
    /\ pipeline_is_restarting = FALSE
    /\ should_terminate = FALSE
    /\ state_mutex = NULL
    /\ daemon = FALSE
    /\ mainpc = "start"
    /\ buildret = "start"
    /\ conn = [t \in Threads |-> IdleConn]
    /\ nreq = 0
    /\ nevents = 0
    /\ cycle = NoCycle
    /\ unreleased = {}
    /\ log = <<InitConfig>>
    /\ acked = 1
    /\ config_file = NULL
    /\ saved = FALSE
    /\ handles = <<>>
    /\ bus_ref = NULL
    /\ reported = NULL
    /\ selection = NULL
    /\ stats_mutex = NULL
    /\ probe = IdleProbe

(***************************************************************************)
(* HTTP handler threads: answer_to_connection (lines 448-494).             *)
(***************************************************************************)
IsGetConfig(req) == req.method = "GET" /\ req.url = "/config"
\* IsPostConfig without the comparison of the url.
IsPostAnyUrl(req) == req.method = "POST"

IsPostConfig(req) == req.method = "POST" /\ req.url = "/config"

\* g_mutex_lock(&data->state_mutex) returns once the mutex is free.
GetConfigMayLockUnguarded == TRUE
GetConfigMayLock == state_mutex = NULL

PostMayLock == state_mutex = NULL

\* A connection is accepted and its request, body included, has been
\* received: the next callback runs the handler (lines 454-483).
HttpArrive(t, requests) ==
    /\ daemon
    /\ conn[t].pc = "idle"
    /\ nreq < MaxRequests
    /\ \E req \in requests :
        conn' = [conn EXCEPT ![t] =
                    [IdleConn EXCEPT !.pc = "called", !.req = req, !.floor = acked]]
    /\ nreq' = nreq + 1
    /\ UNCHANGED <<config, state_mutex, log, acked>>
    /\ UNCHANGED mainVars
    /\ UNCHANGED <<stats_mutex, probe, config_file, saved, selection>>
    /\ UNCHANGED <<handles, bus_ref, reported>>

\* handle_get_config (lines 225-246): the ten fields are read into the JSON
\* object with state_mutex held, the response is queued after the unlock.
\* ConfigJson with "host" taken from the default instead of the field.
ConfigJsonDefaultHost(cfg) ==
    [host |-> JStr(DEFAULT_HOST), port |-> JInt(cfg.port), src |-> JStr(cfg.src_type),
     device |-> JStr(cfg.device), encoder |-> JStr(cfg.encoder_type),
     width |-> JInt(cfg.width), height |-> JInt(cfg.height),
     framerate |-> JInt(cfg.framerate), autofocus |-> JBool(cfg.autofocus),
     lens_position |-> JReal(cfg.lens_position)]

ConfigJson(cfg) ==
    [host |-> JStr(cfg.host), port |-> JInt(cfg.port), src |-> JStr(cfg.src_type),
     device |-> JStr(cfg.device), encoder |-> JStr(cfg.encoder_type),
     width |-> JInt(cfg.width), height |-> JInt(cfg.height),
     framerate |-> JInt(cfg.framerate), autofocus |-> JBool(cfg.autofocus),
     lens_position |-> JReal(cfg.lens_position)]

GetConfig(t) ==
    /\ conn[t].pc = "called"
    /\ IsGetConfig(conn[t].req)
    /\ GetConfigMayLock
    /\ conn' = [conn EXCEPT ![t].pc = "sent",
                            ![t].resp = [NoResp EXCEPT
                                            !.status = MHD_HTTP_OK,
                                            !.config = Some(ConfigJson(config))]]
    /\ UNCHANGED <<config, state_mutex, nreq, log, acked>>
    /\ UNCHANGED mainVars
    /\ UNCHANGED <<stats_mutex, probe, config_file, saved, selection>>
    /\ UNCHANGED <<handles, bus_ref, reported>>

\* process_config_update lines 295-302 and answer_to_connection lines
\* 487-488: the body does not load, 400 is queued without taking the mutex.
PostInvalid(t) ==
    /\ conn[t].pc = "called"
    /\ IsPostConfig(conn[t].req)
    /\ JsonLoadb(conn[t].req.body) = NULL
    /\ conn' = [conn EXCEPT ![t].pc = "sent",
                            ![t].resp = [NoResp EXCEPT
                                            !.status = MHD_HTTP_BAD_REQUEST,
                                            !.text = RespInvalidJson]]
    /\ UNCHANGED <<config, state_mutex, nreq, log, acked>>
    /\ UNCHANGED mainVars
    /\ UNCHANGED <<stats_mutex, probe, config_file, saved, selection>>
    /\ UNCHANGED <<handles, bus_ref, reported>>

\* process_config_update lines 297-337: the body loads, the mutex is taken,
\* the old values are saved, host and port are merged.
PostLock(t) ==
    /\ conn[t].pc = "called"
    /\ IsPostConfig(conn[t].req)
    /\ JsonLoadb(conn[t].req.body) # NULL
    /\ PostMayLock
    /\ LET root == Get(JsonLoadb(conn[t].req.body))
           m == MergeSinkFields([config |-> config,
                                 needs_pipeline_rebuild |-> FALSE,
                                 needs_udp_update |-> FALSE], root)
       IN /\ config' = m.config
          /\ conn' = [conn EXCEPT ![t].pc = "merging",
                                  ![t].root = Some(root),
                                  ![t].old = Some(config),
                                  ![t].needs_pipeline_rebuild = m.needs_pipeline_rebuild,
                                  ![t].needs_udp_update = m.needs_udp_update]
    /\ state_mutex' = Some(t)
    /\ UNCHANGED <<nreq, log, acked>>
    /\ UNCHANGED mainVars
    /\ UNCHANGED <<stats_mutex, probe, config_file, saved, selection>>
    /\ UNCHANGED <<handles, bus_ref, reported>>

\* process_config_update lines 339-414: src, device, encoder, width, height,
\* framerate, autofocus, lens_position.
PostMerge(t) ==
    /\ conn[t].pc = "merging"
    /\ LET m == MergeStructuralFields(
                    [config |-> config,
                     needs_pipeline_rebuild |-> conn[t].needs_pipeline_rebuild,
                     needs_udp_update |-> conn[t].needs_udp_update],
                    Get(conn[t].root))
       IN /\ config' = m.config
          /\ conn' = [conn EXCEPT ![t].pc = "deciding",
                                  ![t].needs_pipeline_rebuild = m.needs_pipeline_rebuild,
                                  ![t].needs_udp_update = m.needs_udp_update]
    /\ UNCHANGED <<state_mutex, nreq, log, acked>>
    /\ UNCHANGED mainVars
    /\ UNCHANGED <<stats_mutex, probe, config_file, saved, selection>>
    /\ UNCHANGED <<handles, bus_ref, reported>>

\* g_object_set(sink, "host", ..., "port", ...) on the element named "sink"
\* of the running pipeline (lines 428-431).
PatchSink(p, cfg) == [p EXCEPT !.host = cfg.host, !.port = cfg.port]

\* process_config_update lines 416-442: ask for a rebuild, or patch the
\* sink of the running pipeline, or neither; then unlock.
PostDecide(t) ==
    /\ conn[t].pc = "deciding"
    /\ IF conn[t].needs_pipeline_rebuild
       THEN /\ pipeline_is_restarting' = TRUE
            /\ pipeline' = pipeline
       ELSE IF conn[t].needs_udp_update /\ pipeline # NULL
       THEN /\ pipeline' = Some(PatchSink(Get(pipeline), config))
            /\ pipeline_is_restarting' = pipeline_is_restarting
       ELSE /\ pipeline' = pipeline
            /\ pipeline_is_restarting' = pipeline_is_restarting
    /\ state_mutex' = NULL
    /\ log' = Append(log, config)
    /\ conn' = [conn EXCEPT ![t].pc = "updated", ![t].idx = Len(log) + 1]
    /\ UNCHANGED <<config, nreq, acked>>
    /\ UNCHANGED <<bus, stats, should_terminate, daemon, mainpc, buildret,
                   nevents, cycle, unreleased>>
    /\ UNCHANGED <<stats_mutex, probe, config_file, saved, selection>>
    /\ UNCHANGED <<handles, bus_ref, reported>>

\* answer_to_connection lines 485-486: process_config_update returned
\* MHD_YES, 200 is queued.
PostRespond(t) ==
    /\ conn[t].pc = "updated"
    /\ conn' = [conn EXCEPT ![t].pc = "sent",
                            ![t].resp = [NoResp EXCEPT
                                            !.status = MHD_HTTP_OK,
                                            !.text = RespUpdated]]
    /\ acked' = IF conn[t].idx > acked THEN conn[t].idx ELSE acked
    /\ UNCHANGED <<config, state_mutex, nreq, log>>
    /\ UNCHANGED mainVars
    /\ UNCHANGED <<stats_mutex, probe, config_file, saved, selection>>
    /\ UNCHANGED <<handles, bus_ref, reported>>

\* request_completed (lines 496-503): the connection's data is freed.
RequestCompleted(t) ==
    /\ conn[t].pc = "sent"
    /\ conn' = [conn EXCEPT ![t] = IdleConn]
    /\ UNCHANGED <<config, state_mutex, nreq, log, acked>>
    /\ UNCHANGED mainVars
    /\ UNCHANGED <<stats_mutex, probe, config_file, saved, selection>>
    /\ UNCHANGED <<handles, bus_ref, reported>>

(***************************************************************************)
(* The other routes of answer_to_connection (lines 468-493).               *)
(***************************************************************************)
Req(method, url) == [method |-> method, url |-> url, body |-> EmptyBody]

GetRoutes == {"/health", "/config", "/devices", "/stats"}

IsGetRoute(req, url) == req.method = "GET" /\ req.url = url

\* No branch of lines 468-490 takes the request.
IsUnrouted(req) ==
    /\ ~(req.method = "GET" /\ req.url \in GetRoutes)
    /\ ~IsPostConfig(req)

\* handle_health_check (lines 220-223).
HealthCheck(t) ==
    /\ conn[t].pc = "called"
    /\ IsGetRoute(conn[t].req, "/health")
    /\ conn' = [conn EXCEPT ![t].pc = "sent",
                            ![t].resp = [NoResp EXCEPT !.status = MHD_HTTP_OK,
                                                       !.text = RespOk]]
    /\ UNCHANGED <<config, state_mutex, nreq, log, acked>>
    /\ UNCHANGED mainVars
    /\ UNCHANGED <<stats_mutex, probe, config_file, saved, selection>>
    /\ UNCHANGED <<handles, bus_ref, reported>>

\* find_video_device (lines 190-207): the first path glob finds, if any.
VideoDevices == {NULL, Some("/dev/video0")}

\* handle_get_devices (lines 248-265): {"devices": [...]} with the device
\* found, or with an empty array.
GetDevices(t) ==
    /\ conn[t].pc = "called"
    /\ IsGetRoute(conn[t].req, "/devices")
    /\ \E device \in VideoDevices :
        conn' = [conn EXCEPT ![t].pc = "sent",
                             ![t].resp = [NoResp EXCEPT !.status = MHD_HTTP_OK,
                                                        !.devices = Some(device)]]
    /\ UNCHANGED <<config, state_mutex, nreq, log, acked>>
    /\ UNCHANGED mainVars
    /\ UNCHANGED <<stats_mutex, probe, config_file, saved, selection>>
    /\ UNCHANGED <<handles, bus_ref, reported>>

\* The JSON object of handle_get_stats (lines 279-282); the bitrate member
\* is computed from the two counters' age and is not part of the state.
StatsJson(st) ==
    [total_bytes |-> JInt(st.total_bytes), frame_count |-> JInt(st.frame_count)]

\* handle_get_stats (lines 267-293): the counters are read with stats_mutex
\* held; state_mutex is not taken.
GetStats(t) ==
    /\ conn[t].pc = "called"
    /\ IsGetRoute(conn[t].req, "/stats")
    /\ stats_mutex = NULL
    /\ conn' = [conn EXCEPT ![t].pc = "sent",
                            ![t].resp = [NoResp EXCEPT !.status = MHD_HTTP_OK,
                                                       !.stats = Some(StatsJson(stats))]]
    /\ UNCHANGED <<config, state_mutex, nreq, log, acked>>
    /\ UNCHANGED mainVars
    /\ UNCHANGED <<stats_mutex, probe, config_file, saved, selection>>
    /\ UNCHANGED <<handles, bus_ref, reported>>

\* Line 493: no route matched.
NotFound(t) ==
    /\ conn[t].pc = "called"
    /\ IsUnrouted(conn[t].req)
    /\ conn' = [conn EXCEPT ![t].pc = "sent",
                            ![t].resp = [NoResp EXCEPT !.status = MHD_HTTP_NOT_FOUND,
                                                       !.text = RespNotFound]]
    /\ UNCHANGED <<config, state_mutex, nreq, log, acked>>
    /\ UNCHANGED mainVars
    /\ UNCHANGED <<stats_mutex, probe, config_file, saved, selection>>
    /\ UNCHANGED <<handles, bus_ref, reported>>

(***************************************************************************)
(* The backend as build_and_run_pipeline meets it: which factory fails,    *)
(* which encoders exist, whether the elements link and start.              *)
(***************************************************************************)
Encoders == {"v4l2h264enc", "x264enc"}

\* gst_pipeline_new or a gst_element_factory_make returning NULL, or
\* gst_element_set_state(PLAYING) returning GST_STATE_CHANGE_FAILURE.
FailPoints ==
    {"none", "pipeline", "source", "capsfilter", "parser", "encoder_caps",
     "payloader", "sink", "playing"}

\* link: gst_element_link_many succeeds with the configured caps;
\* relink: it succeeds with the 1280x720 caps of the retry;
\* async: gst_element_set_state(PLAYING) returns GST_STATE_CHANGE_ASYNC, the
\* state change is completed later by the streaming threads, if at all.
BuildEnvs ==
    [fail : FailPoints, avail : SUBSET Encoders, link : BOOLEAN, relink : BOOLEAN,
     async : BOOLEAN]

\* A device on which everything works, and the same device with one
\* thing broken: no source element, no H.264 encoder, a pipeline that does
\* not start.
HealthyEnv ==
    [fail |-> "none", avail |-> Encoders, link |-> TRUE, relink |-> TRUE,
     async |-> FALSE]

ScenarioEnvs ==
    { HealthyEnv,
      [HealthyEnv EXCEPT !.fail = "source"],
      [HealthyEnv EXCEPT !.avail = {}],
      [HealthyEnv EXCEPT !.fail = "playing"] }

\* Lines 642-663: the configured encoder, else x264enc for v4l2h264enc and
\* v4l2h264enc for x264enc; NULL when none could be made.
PickEncoder(encoder_type, avail) ==
    IF encoder_type \in avail THEN Some(encoder_type)
    ELSE IF encoder_type = "v4l2h264enc" /\ "x264enc" \in avail THEN Some("x264enc")
    ELSE IF encoder_type = "x264enc" /\ "v4l2h264enc" \in avail THEN Some("v4l2h264enc")
    ELSE NULL

\* Lines 665-678: the encoder whose parameters are set on the element that
\* was made: those of x264enc (tune, speed-preset, bitrate, threads) when
\* the configured name or the factory of the element is x264enc, else those
\* of v4l2h264enc (extra-controls) when the configured name or the factory
\* is v4l2h264enc, else none.  Line 650 sets the x264enc parameters on an
\* x264enc made as the fallback.
EncoderTuning(encoder_type, actual) ==
    IF encoder_type = "x264enc" \/ actual = "x264enc" THEN "x264enc"
    ELSE IF encoder_type = "v4l2h264enc" \/ actual = "v4l2h264enc" THEN "v4l2h264enc"
    ELSE "none"

\* The elements in the order lines 547-712 create them.
ElementOrder ==
    <<"source", "capsfilter", "encoder", "parser", "encoder_caps", "payloader",
      "sink">>

ElementsBefore(name) ==
    {ElementOrder[i] : i \in {j \in 1..Len(ElementOrder) :
                                \E k \in (j + 1)..Len(ElementOrder) : ElementOrder[k] = name}}

\* Lines 740-778: a failed link is retried with 1280x720 caps unless the
\* configuration is 1280x720 already; in that case construction goes on
\* with the elements not linked.
LinkState(cfg, env) ==
    IF env.link THEN "linked"
    ELSE IF cfg.width # 1280 \/ cfg.height # 720
         THEN (IF env.relink THEN "fallback" ELSE "failed")
    ELSE "unlinked"

\* The step at which the attempt stops, "none" when it runs to the end.
BuildStopsAt(cfg, env) ==
    IF env.fail = "pipeline" THEN "pipeline"
    ELSE IF env.fail \in {"source", "capsfilter"} THEN env.fail
    ELSE IF PickEncoder(cfg.encoder_type, env.avail) = NULL THEN "encoder"
    ELSE IF env.fail \in {"parser", "encoder_caps", "payloader", "sink"} THEN env.fail
    ELSE IF LinkState(cfg, env) = "failed" THEN "link"
    ELSE IF env.fail = "playing" THEN "playing"
    ELSE "none"

\* The error path (lines 818-830) unrefs the pipeline and the bus only: an
\* element made by gst_element_factory_make and not yet given to the bin
\* by gst_bin_add_many (line 736) keeps its reference.
UnreleasedAfter(stop) ==
    IF stop \in {"none", "pipeline", "link", "playing"} THEN {}
    ELSE ElementsBefore(stop)

\* Lines 782-788 run once the elements are linked, before the state change.
StatsResetReached(stop) == stop \in {"none", "playing"}

\* The pipeline that is left running, from the configuration it was built
\* with; pending: its change of state to PLAYING has not completed yet;
\* tuning: the encoder whose parameters were set on its encoder element.
BuiltPipeline(cfg, env) ==
    [host |-> cfg.host, port |-> cfg.port, src |-> cfg.src_type,
     encoder |-> Get(PickEncoder(cfg.encoder_type, env.avail)),
     width |-> IF LinkState(cfg, env) = "fallback" THEN 1280 ELSE cfg.width,
     height |-> IF LinkState(cfg, env) = "fallback" THEN 720 ELSE cfg.height,
     framerate |-> cfg.framerate, autofocus |-> cfg.autofocus,
     lens_position |-> cfg.lens_position,
     linked |-> LinkState(cfg, env) # "unlinked",
     pending |-> env.async,
     tuning |-> EncoderTuning(cfg.encoder_type,
                              Get(PickEncoder(cfg.encoder_type, env.avail)))]

\* The handle gst_pipeline_new returns (line 537): handles are numbered in
\* the order of their creation; the bus of a pipeline carries its number.
NewPipeline(id, cfg, env) == [id |-> id] @@ BuiltPipeline(cfg, env)

\* Unref that leaves the handle alive.
UnrefNothing(hs, p) == hs

\* gst_object_unref of a pipeline handle.
Unref(hs, p) == IF p = NULL THEN hs ELSE [hs EXCEPT ![Get(p).id] = "destroyed"]

(***************************************************************************)
(* Main thread: build_and_run_pipeline (lines 505-830).  state_mutex is    *)
(* taken on entry and released on each return.                             *)
(***************************************************************************)
MainThread == "main"

\* AfterBuild without the retry of line 889.
AfterBuildNoRetry(ret, ok, terminate) ==
    IF ret = "start" THEN (IF ok THEN "loop_top" ELSE "exited")
    ELSE IF terminate THEN "cleanup" ELSE "loop_top"

\* AfterBuild with the failed retry retried again.
AfterBuildRetryAgain(ret, ok, terminate) ==
    IF ret = "start" THEN (IF ok THEN "loop_top" ELSE "exited")
    ELSE IF ~ok THEN "retry"
    ELSE IF terminate THEN "cleanup" ELSE "loop_top"

\* Where main continues when build_and_run_pipeline returns `ok` to the
\* call site `ret`: the first build (line 854), the rebuild (line 886) or
\* its retry (line 889).  `continue` goes to the loop condition (line 962).
AfterBuild(ret, ok, terminate) ==
    IF ret = "start" THEN (IF ok THEN "loop_top" ELSE "exited")
    ELSE IF ret = "rebuild" /\ ~ok THEN "retry"
    ELSE IF terminate THEN "cleanup" ELSE "loop_top"

\* should_terminate after the return: set when the retry fails (line 891).
TerminateAfterBuild(ret, ok) == should_terminate \/ (ret = "retry" /\ ~ok)

\* Line 506.
BuildEnter ==
    /\ mainpc \in {"start", "rebuild", "retry"}
    /\ state_mutex = NULL
    /\ state_mutex' = Some(MainThread)
    /\ buildret' = mainpc
    /\ mainpc' = "build_teardown"
    /\ UNCHANGED <<config, conn, nreq, log, acked>>
    /\ UNCHANGED <<pipeline, bus, stats, pipeline_is_restarting, should_terminate,
                   daemon, nevents, cycle, unreleased>>
    /\ UNCHANGED <<stats_mutex, probe, config_file, saved, selection>>
    /\ UNCHANGED <<handles, bus_ref, reported>>

\* Lines 511-535: when there is a pipeline it is stopped (waiting up to
\* 5 s), unref'd, and the thread sleeps 1 s; the bus reference is dropped.
\* Stopping the pipeline waits for its streaming thread to leave the probe.
BuildTeardown ==
    /\ mainpc = "build_teardown"
    /\ pipeline # NULL => probe.pc = "idle"
    /\ pipeline' = NULL
    /\ bus' = NULL
    /\ cycle' = IF pipeline # NULL
                THEN [cycle EXCEPT !.teardowns = @ + 1, !.unquiesced = FALSE]
                ELSE cycle
    /\ unreleased' = {}
    /\ handles' = Unref(handles, pipeline)
    /\ mainpc' = "build_construct"
    /\ UNCHANGED <<config, state_mutex, conn, nreq, log, acked>>
    /\ UNCHANGED <<stats, pipeline_is_restarting, should_terminate, daemon,
                   buildret, nevents>>
    /\ UNCHANGED <<stats_mutex, probe, config_file, saved, selection, bus_ref, reported>>

\* The error path is reached with a pipeline handle to destroy unless
\* gst_pipeline_new itself failed (lines 537-542).
HandleDestroyedAt(stop) == stop # "pipeline"

\* Lines 537-829 when the attempt fails: pipeline and bus are NULL again,
\* the mutex is released, FALSE is returned.
BuildFail(envs) ==
    /\ mainpc = "build_construct"
    /\ \E env \in envs :
        LET stop == BuildStopsAt(config, env) IN
        /\ stop # "none"
        /\ StatsResetReached(stop) => stats_mutex = NULL
        /\ stats' = IF StatsResetReached(stop) THEN InitStats ELSE stats
        /\ unreleased' = UnreleasedAfter(stop)
        /\ cycle' = [cycle EXCEPT
                        !.builds = @ + 1,
                        !.resets = IF StatsResetReached(stop) THEN @ + 1 ELSE @,
                        !.unquiesced = @ \/ HandleDestroyedAt(stop)]
        /\ handles' = IF HandleDestroyedAt(stop)
                       THEN Append(handles, "destroyed") ELSE handles
    /\ pipeline' = NULL
    /\ bus' = NULL
    /\ state_mutex' = NULL
    /\ should_terminate' = TerminateAfterBuild(buildret, FALSE)
    /\ mainpc' = AfterBuild(buildret, FALSE, should_terminate')
    /\ UNCHANGED <<config, conn, nreq, log, acked>>
    /\ UNCHANGED <<pipeline_is_restarting, daemon, buildret, nevents>>
    /\ UNCHANGED <<stats_mutex, probe, config_file, saved, selection, bus_ref, reported>>

\* Lines 537-801 when every step succeeds: the statistics are reset with
\* stats_mutex held, the pipeline is PLAYING, data->bus holds its bus.  The mutex stays held
\* during the 500 ms wait and the state check that follow.
BuildStart(envs) ==
    /\ mainpc = "build_construct"
    /\ stats_mutex = NULL
    /\ \E env \in envs :
        /\ BuildStopsAt(config, env) = "none"
        /\ pipeline' = Some(NewPipeline(Len(handles) + 1, config, env))
    /\ handles' = Append(handles, "live")
    /\ bus' = Some(Len(handles) + 1)
    /\ stats' = InitStats
    /\ cycle' = [cycle EXCEPT !.builds = @ + 1, !.resets = @ + 1]
    /\ mainpc' = "build_settle"
    /\ UNCHANGED <<config, state_mutex, conn, nreq, log, acked>>
    /\ UNCHANGED <<pipeline_is_restarting, should_terminate, daemon, buildret,
                   nevents, unreleased>>
    /\ UNCHANGED <<stats_mutex, probe, config_file, saved, selection, bus_ref, reported>>

\* The streaming threads of the pipeline complete its change of state, or
\* the change fails: from then on gst_element_get_state does not block.
StateChangeDone ==
    /\ pipeline # NULL
    /\ Get(pipeline).pending
    /\ pipeline' = Some([Get(pipeline) EXCEPT !.pending = FALSE])
    /\ UNCHANGED <<config, state_mutex, conn, nreq, log, acked>>
    /\ UNCHANGED <<bus, stats, pipeline_is_restarting, should_terminate, daemon,
                   mainpc, buildret, nevents, cycle, unreleased>>
    /\ UNCHANGED <<stats_mutex, probe, config_file, saved, selection>>
    /\ UNCHANGED <<handles, bus_ref, reported>>

\* Lines 803-816: after 500 ms gst_element_get_state(..., GST_CLOCK_TIME_NONE)
\* returns once no change of state is pending; unlock and return TRUE; after
\* the first build main starts the HTTP daemon (lines 861-869).
BuildReturn ==
    /\ mainpc = "build_settle"
    /\ ~Get(pipeline).pending
    /\ state_mutex' = NULL
    /\ daemon' = (daemon \/ buildret = "start")
    /\ mainpc' = AfterBuild(buildret, TRUE, should_terminate)
    /\ UNCHANGED <<config, conn, nreq, log, acked>>
    /\ UNCHANGED <<pipeline, bus, stats, pipeline_is_restarting, should_terminate,
                   buildret, nevents, cycle, unreleased>>
    /\ UNCHANGED <<stats_mutex, probe, config_file, saved, selection>>
    /\ UNCHANGED <<handles, bus_ref, reported>>

build_and_run_pipeline(envs) ==
    \/ BuildEnter
    \/ BuildTeardown
    \/ BuildFail(envs)
    \/ BuildStart(envs)
    \/ BuildReturn

(***************************************************************************)
(* Main thread: the loop of main (lines 871-962) and the cleanup.          *)
(***************************************************************************)
\* LoopTop that clears a restart request and goes on to the poll.
LoopTopIgnoresRestart ==
    /\ mainpc = "loop_top"
    /\ state_mutex = NULL
    /\ IF should_terminate
       THEN /\ mainpc' = "cleanup"
            /\ UNCHANGED <<pipeline_is_restarting, cycle>>
       ELSE IF pipeline_is_restarting
       THEN /\ pipeline_is_restarting' = FALSE
            /\ cycle' = NoCycle
            /\ mainpc' = IF bus # NULL THEN "poll" ELSE "loop_top"
       ELSE /\ mainpc' = IF bus # NULL THEN "poll" ELSE "loop_top"
            /\ UNCHANGED <<pipeline_is_restarting, cycle>>
    /\ bus_ref' = IF ~should_terminate THEN bus ELSE NULL
    /\ UNCHANGED <<config, state_mutex, conn, nreq, log, acked>>
    /\ UNCHANGED <<pipeline, bus, stats, should_terminate, daemon, buildret,
                   nevents, unreleased>>
    /\ UNCHANGED <<stats_mutex, probe, config_file, saved, selection, handles, reported>>

\* Lines 872-904, with state_mutex held: leave when should_terminate, take
\* a restart request, or take a reference to the bus for the poll; with no
\* bus, sleep 100 ms and come back (lines 957-962).
LoopTop ==
    /\ mainpc = "loop_top"
    /\ state_mutex = NULL
    /\ IF should_terminate
       THEN /\ mainpc' = "cleanup"
            /\ UNCHANGED <<pipeline_is_restarting, cycle>>
       ELSE IF pipeline_is_restarting
       THEN /\ pipeline_is_restarting' = FALSE
            /\ cycle' = NoCycle
            /\ mainpc' = "rebuild"
       ELSE /\ mainpc' = IF bus # NULL THEN "poll" ELSE "loop_top"
            /\ UNCHANGED <<pipeline_is_restarting, cycle>>
    /\ bus_ref' = IF ~should_terminate /\ ~pipeline_is_restarting THEN bus ELSE NULL
    /\ UNCHANGED <<config, state_mutex, conn, nreq, log, acked>>
    /\ UNCHANGED <<pipeline, bus, stats, should_terminate, daemon, buildret,
                   nevents, unreleased>>
    /\ UNCHANGED <<stats_mutex, probe, config_file, saved, selection, handles, reported>>

BusMessages ==
    {"GST_MESSAGE_ERROR", "GST_MESSAGE_EOS", "GST_MESSAGE_WARNING",
     "GST_MESSAGE_INFO", "GST_MESSAGE_STATE_CHANGED"}

\* IsFatal with end-of-stream left out.
IsFatalErrorOnly(msg) == msg = "GST_MESSAGE_ERROR"

\* IsFatal with warnings taken for errors.
IsFatalOrWarning(msg) ==
    msg \in {"GST_MESSAGE_ERROR", "GST_MESSAGE_EOS", "GST_MESSAGE_WARNING"}

IsFatal(msg) == msg \in {"GST_MESSAGE_ERROR", "GST_MESSAGE_EOS"}

\* Lines 907-911 with no message within 100 ms, then the loop condition.
PollTimeout ==
    /\ mainpc = "poll"
    /\ mainpc' = "loop_top"
    /\ bus_ref' = NULL
    /\ UNCHANGED <<config, state_mutex, conn, nreq, log, acked>>
    /\ UNCHANGED <<pipeline, bus, stats, pipeline_is_restarting, should_terminate,
                   daemon, buildret, nevents, cycle, unreleased>>
    /\ UNCHANGED <<stats_mutex, probe, config_file, saved, selection, handles, reported>>

\* GST_MESSAGE_SRC of a message: the pipeline object itself, or one of the
\* elements in it.  A bus carries the messages of its own pipeline only.
PipelineObject(id) == [pipeline |-> id, element |-> ""]
ElementObject(id) == [pipeline |-> id, element |-> "sink"]

MessageSources(b) == {PipelineObject(b), ElementObject(b)}

\* Line 943 with every source taken for the pipeline.
IsAnySource(src, p) == TRUE

\* Line 943: data.pipeline && GST_MESSAGE_SRC(msg) == GST_OBJECT(data.pipeline).
IsOwnedPipeline(src, p) == p # NULL /\ src = PipelineObject(Get(p).id)

\* Lines 907-956 with a message popped from the bus main holds: ERROR and
\* EOS set should_terminate; a STATE_CHANGED message is looked at with
\* state_mutex held and printed when it comes from data.pipeline; WARNING
\* and INFO are printed; the bus is unref'd; then the loop condition (line
\* 962).
PollMessage(msg) ==
    /\ mainpc = "poll"
    /\ nevents < MaxEvents
    /\ msg = "GST_MESSAGE_STATE_CHANGED" => state_mutex = NULL
    /\ nevents' = nevents + 1
    /\ should_terminate' = (should_terminate \/ IsFatal(msg))
    /\ \E src \in MessageSources(Get(bus_ref)) :
        reported' = IF msg = "GST_MESSAGE_STATE_CHANGED" /\ IsOwnedPipeline(src, pipeline)
                    THEN Some(src) ELSE reported
    /\ bus_ref' = NULL
    /\ mainpc' = IF should_terminate' THEN "cleanup" ELSE "loop_top"
    /\ UNCHANGED <<config, state_mutex, conn, nreq, log, acked>>
    /\ UNCHANGED <<pipeline, bus, stats, pipeline_is_restarting, daemon, buildret,
                   cycle, unreleased>>
    /\ UNCHANGED <<stats_mutex, probe, config_file, saved, selection, handles>>

\* StopDaemon that does not wait for the connection threads.
StopDaemonNoWait ==
    /\ mainpc = "cleanup"
    /\ daemon' = FALSE
    /\ mainpc' = "release"
    /\ UNCHANGED <<config, state_mutex, conn, nreq, log, acked>>
    /\ UNCHANGED <<pipeline, bus, stats, pipeline_is_restarting, should_terminate,
                   buildret, nevents, cycle, unreleased>>
    /\ UNCHANGED <<stats_mutex, probe, config_file, saved, selection>>
    /\ UNCHANGED <<handles, bus_ref, reported>>

\* Line 965: MHD_stop_daemon returns when the connection threads are done.
StopDaemon ==
    /\ mainpc = "cleanup"
    /\ \A t \in Threads : conn[t].pc = "idle"
    /\ daemon' = FALSE
    /\ mainpc' = "release"
    /\ UNCHANGED <<config, state_mutex, conn, nreq, log, acked>>
    /\ UNCHANGED <<pipeline, bus, stats, pipeline_is_restarting, should_terminate,
                   buildret, nevents, cycle, unreleased>>
    /\ UNCHANGED <<stats_mutex, probe, config_file, saved, selection>>
    /\ UNCHANGED <<handles, bus_ref, reported>>

\* Lines 966-979: the pipeline and the bus are released, main returns.
Release ==
    /\ mainpc = "release"
    /\ state_mutex = NULL
    /\ pipeline # NULL => probe.pc = "idle"
    /\ pipeline' = NULL
    /\ bus' = NULL
    /\ handles' = Unref(handles, pipeline)
    /\ mainpc' = "exited"
    /\ UNCHANGED <<config, state_mutex, conn, nreq, log, acked>>
    /\ UNCHANGED <<stats, pipeline_is_restarting, should_terminate, daemon,
                   buildret, nevents, cycle, unreleased>>
    /\ UNCHANGED <<stats_mutex, probe, config_file, saved, selection, bus_ref, reported>>

(***************************************************************************)
(* Streaming thread: udpsink_probe_callback (lines 129-153), one buffer    *)
(* counted with stats_mutex held.                                          *)
(***************************************************************************)
BufferSizes == {1, 2}

udpsink_probe_callback(size) ==
    /\ pipeline # NULL
    /\ mainpc # "exited"
    /\ stats_mutex = NULL
    /\ stats.frame_count < MaxFrames
    /\ stats' = [total_bytes |-> stats.total_bytes + size,
                 frame_count |-> stats.frame_count + 1]
    /\ UNCHANGED <<config, state_mutex, conn, nreq, log, acked>>
    /\ UNCHANGED <<pipeline, bus, pipeline_is_restarting, should_terminate, daemon,
                   mainpc, buildret, nevents, cycle, unreleased>>
    /\ UNCHANGED <<stats_mutex, probe, config_file, saved, selection>>
    /\ UNCHANGED <<handles, bus_ref, reported>>

(***************************************************************************)
(* The controller.                                                         *)
(***************************************************************************)
Next ==
    \/ build_and_run_pipeline(ScenarioEnvs)
    \/ LoopTop
    \/ PollTimeout
    \/ \E msg \in BusMessages : PollMessage(msg)
    \/ StopDaemon
    \/ Release
    \/ \E size \in BufferSizes : udpsink_probe_callback(size)
    \/ \E t \in Threads :
        \/ HttpArrive(t, ScenarioRequests)
        \/ GetConfig(t)
        \/ PostInvalid(t)
        \/ PostLock(t)
        \/ PostMerge(t)
        \/ PostDecide(t)
        \/ PostRespond(t)
        \/ RequestCompleted(t)

Spec == Init /\ [][Next]_vars

(***************************************************************************)
(* The configuration store alone: one client sending POST /config and GET  *)
(* /config one after the other to a controller whose first pipeline runs,  *)
(* with documents over the whole range of width, height and framerate.     *)
(***************************************************************************)
HostValues == {JNull, JStr("10.0.0.5")}

PortValues == {JNull, JInt(65535), JInt(65536)}

WidthValues ==
    {JNull, JInt(319), JInt(1920), JInt(4096), JInt(4608), JInt(4609),
     JInt64(1, 640), JStr("1920")}

HeightValues == {JNull, JInt(239), JInt(1080), JInt(2592), JInt(2593)}

FramerateValues == {JNull, JInt(0), JInt(30), JInt(121), JInt(500)}

ApplyDocs ==
    {[EmptyDoc EXCEPT !["host"] = h, !["port"] = p, !["width"] = w,
                      !["height"] = ht, !["framerate"] = r] :
        h \in HostValues, p \in PortValues, w \in WidthValues,
        ht \in HeightValues, r \in FramerateValues}

ApplyRequests ==
    {GetReq("/config")}
    \cup {PostReq("/config", ObjectBody(d)) : d \in ApplyDocs}
    \cup {PostReq("/config", b) : b \in {EmptyBody, GarbageBody, ScalarBody, ArrayBody}}

\* The state main reaches when the first build succeeded on a healthy
\* device and the daemon was started (lines 854-869).
InitApply ==
    /\ config = InitConfig
    /\ pipeline = Some(NewPipeline(1, InitConfig, HealthyEnv))
    /\ bus = Some(1)
    /\ stats = InitStats
    /\ pipeline_is_restarting = FALSE
    /\ should_terminate = FALSE
    /\ state_mutex = NULL
    /\ daemon = TRUE
    /\ mainpc = "poll"
    /\ buildret = "start"
    /\ conn = [t \in Threads |-> IdleConn]
    /\ nreq = 0
    /\ nevents = 0
    /\ cycle = [NoCycle EXCEPT !.builds = 1, !.resets = 1]
    /\ unreleased = {}
    /\ log = <<InitConfig>>
    /\ acked = 1
    /\ config_file = NULL
    /\ saved = FALSE
    /\ handles = <<"live">>
    /\ bus_ref = Some(1)
    /\ reported = NULL
    /\ selection = NULL
    /\ stats_mutex = NULL
    /\ probe = IdleProbe

NextApply ==
    \/ HttpArrive("h1", ApplyRequests)
    \/ GetConfig("h1")
    \/ PostInvalid("h1")
    \/ PostLock("h1")
    \/ PostMerge("h1")
    \/ PostDecide("h1")
    \/ PostRespond("h1")
    \/ RequestCompleted("h1")

SpecApply == InitApply /\ [][NextApply]_vars

(***************************************************************************)
(* The controller with every route of the API: two clients sending any     *)
(* request of the route table, and requests outside it.                    *)
(***************************************************************************)
RouteRequests ==
    {Req("GET", url) : url \in GetRoutes \cup {"/unknown"}}
    \cup {Req("POST", "/health"), Req("PUT", "/config")}
    \cup {PostReq("/config", ObjectBody(d)) :
            d \in {Doc([width |-> JInt(1920), height |-> JInt(1080)]),
                   Doc([host |-> JStr("10.0.0.5")])}}
    \cup {PostReq("/config", GarbageBody)}

NextRoutes ==
    \/ build_and_run_pipeline(ScenarioEnvs)
    \/ LoopTop
    \/ PollTimeout
    \/ \E msg \in BusMessages : PollMessage(msg)
    \/ StopDaemon
    \/ Release
    \/ \E size \in BufferSizes : udpsink_probe_callback(size)
    \/ \E t \in Threads :
        \/ HttpArrive(t, RouteRequests)
        \/ HealthCheck(t)
        \/ GetConfig(t)
        \/ GetDevices(t)
        \/ GetStats(t)
        \/ PostInvalid(t)
        \/ PostLock(t)
        \/ PostMerge(t)
        \/ PostDecide(t)
        \/ PostRespond(t)
        \/ NotFound(t)
        \/ RequestCompleted(t)

SpecRoutes == Init /\ [][NextRoutes]_vars

(***************************************************************************)
(* The variant with a persisted configuration (src/unnamed/part_001): the  *)
(* configuration, its file, process start and POST /config.  The daemon    *)
(* of this variant has one polling thread, so requests are served one at   *)
(* a time.                                                                 *)
(***************************************************************************)
PersistedFields ==
    {"host", "port", "camera", "encoder", "width", "height", "framerate"}

PersistedDoc(fs) ==
    [f \in PersistedFields |-> IF f \in DOMAIN fs THEN fs[f] ELSE JNull]

\* init_config of the variant (lines 102-110).
PersistedInitConfig ==
    [host |-> DEFAULT_HOST, port |-> DEFAULT_PORT, camera_name |-> "",
     encoder_type |-> "v4l2h264enc", width |-> DEFAULT_WIDTH,
     height |-> DEFAULT_HEIGHT, framerate |-> PersistedDefaultFramerate]

\* The JSON object save_config_to_file writes (lines 134-141).
SavedJson(cfg) ==
    [host |-> JStr(cfg.host), port |-> JInt(cfg.port),
     camera |-> JStr(cfg.camera_name), encoder |-> JStr(cfg.encoder_type),
     width |-> JInt(cfg.width), height |-> JInt(cfg.height),
     framerate |-> JInt(cfg.framerate)]

JsonFile(doc) == [kind |-> "json", doc |-> doc]
CorruptFile == [kind |-> "corrupt", doc |-> PersistedDoc(<<>>)]

\* save_config_to_file (lines 128-153): the file holds the object; or the
\* directory or the file could not be opened and the file is as before; or
\* json_dump_file failed after it had truncated the file.
SaveOutcomes == {"saved", "unchanged", "truncated"}

save_config_to_file(file, cfg, outcome) ==
    CASE outcome = "saved" -> Some(JsonFile(SavedJson(cfg)))
      [] outcome = "unchanged" -> file
      [] outcome = "truncated" -> Some(CorruptFile)

IsInt(value) == value.t = "integer"
IsStr(value) == value.t = "string"

\* load_config_from_file lines 173-179: the port.
LoadPort(cfg, value) ==
    IF IsInt(value) /\ ToGint(value) > 0 /\ ToGint(value) <= PersistedMaxPort
    THEN [cfg EXCEPT !.port = ToGint(value)] ELSE cfg

\* load_config_from_file lines 195-223: width, height, framerate.
LoadBounded(cfg, f, value, lo, hi) ==
    IF IsInt(value) /\ ToGint(value) >= lo /\ ToGint(value) <= hi
    THEN [cfg EXCEPT ![f] = ToGint(value)] ELSE cfg

LoadString(cfg, f, value) ==
    IF IsStr(value) THEN [cfg EXCEPT ![f] = value.v] ELSE cfg

\* load_config_from_file (lines 155-227) on a file that parses.
load_config_from_file(cfg, root) ==
    LET c1 == LoadString(cfg, "host", root["host"])
        c2 == LoadPort(c1, root["port"])
        c3 == LoadString(c2, "camera_name", root["camera"])
        c4 == LoadString(c3, "encoder_type", root["encoder"])
        c5 == LoadBounded(c4, "width", root["width"], 320, PersistedMaxWidth)
        c6 == LoadBounded(c5, "height", root["height"], 240, PersistedMaxHeight)
    IN  LoadBounded(c6, "framerate", root["framerate"], 1, 120)

\* One field of process_config_update of the variant: m is the
\* configuration with the locals needs_pipeline_rebuild, needs_udp_update
\* and config_modified.
SetField(m, f, v, rebuild) ==
    IF m.config[f] = v THEN m
    ELSE [config |-> [m.config EXCEPT ![f] = v],
          needs_pipeline_rebuild |-> m.needs_pipeline_rebuild \/ rebuild,
          needs_udp_update |-> m.needs_udp_update \/ ~rebuild,
          config_modified |-> TRUE]

\* UpdateString that does not note the change in config_modified.
UpdateStringUnnoted(m, f, value, rebuild) ==
    IF IsStr(value) /\ m.config[f] # value.v
    THEN [m EXCEPT !.config[f] = value.v,
                   !.needs_pipeline_rebuild = @ \/ rebuild,
                   !.needs_udp_update = @ \/ ~rebuild]
    ELSE m

UpdateString(m, f, value, rebuild) ==
    IF IsStr(value) THEN SetField(m, f, value.v, rebuild) ELSE m

\* Lines 634-641: the port, any integer.
UpdatePort(m, value) ==
    IF IsInt(value) THEN SetField(m, "port", ToGint(value), FALSE) ELSE m

\* Lines 665-697: width, height, framerate.
UpdateBounded(m, f, value, lo, hi) ==
    IF IsInt(value) /\ ToGint(value) >= lo /\ ToGint(value) <= hi
    THEN SetField(m, f, ToGint(value), TRUE) ELSE m

\* process_config_update of the variant, lines 622-697.
PersistedMerge(cfg, root) ==
    LET m0 == [config |-> cfg, needs_pipeline_rebuild |-> FALSE,
               needs_udp_update |-> FALSE, config_modified |-> FALSE]
        m1 == UpdateString(m0, "host", root["host"], FALSE)
        m2 == UpdatePort(m1, root["port"])
        m3 == UpdateString(m2, "camera_name", root["camera"], TRUE)
        m4 == UpdateString(m3, "encoder_type", root["encoder"], TRUE)
        m5 == UpdateBounded(m4, "width", root["width"], 320, PersistedMaxWidth)
        m6 == UpdateBounded(m5, "height", root["height"], 240, PersistedMaxHeight)
    IN  UpdateBounded(m6, "framerate", root["framerate"], 1, 120)

persistVars ==
    <<stats, should_terminate, state_mutex, buildret, conn, nevents, cycle,
      unreleased, log, acked, handles, bus_ref, reported,
      stats_mutex, probe>>

\* main, lines 1070-1085: an existing file is loaded; when there is none,
\* or it does not parse, the defaults are written.
PersistLoad ==
    /\ mainpc = "start"
    /\ IF config_file # NULL /\ Get(config_file).kind = "json"
       THEN /\ config' = load_config_from_file(config, Get(config_file).doc)
            /\ UNCHANGED <<config_file, saved>>
       ELSE /\ \E outcome \in SaveOutcomes :
                /\ config_file' = save_config_to_file(config_file, config, outcome)
                /\ saved' = (outcome = "saved")
            /\ UNCHANGED config
    /\ mainpc' = "loaded"
    /\ UNCHANGED <<pipeline, bus, pipeline_is_restarting, daemon, nreq, selection>>
    /\ UNCHANGED persistVars

\* build_and_run_pipeline of the variant, lines 876-884: the names tried,
\* in this order.
EncoderFallbacks(encoder_type) ==
    <<encoder_type, "v4l2h264enc", "omxh264enc", "x264enc", "nvh264enc",
      "vaapih264enc">>

\* The names gst_element_factory_make may know on a device: those of the
\* list, and one that is not in it.
PersistedEncoders ==
    {"v4l2h264enc", "omxh264enc", "x264enc", "nvh264enc", "vaapih264enc",
     "openh264enc"}

\* The loop without the test of lines 891-893.
RECURSIVE TryEncodersNoSkip(_, _, _, _)
TryEncodersNoSkip(list, i, avail, tried) ==
    IF i > Len(list) THEN [tried |-> tried, actual |-> NULL]
    ELSE IF list[i] \in avail
         THEN [tried |-> Append(tried, list[i]), actual |-> Some(list[i])]
    ELSE TryEncodersNoSkip(list, i + 1, avail, Append(tried, list[i]))

\* The loop of lines 889-905 from index i on: an entry equal to the
\* configured name is skipped after the first; the first name that
\* gst_element_factory_make can make ends the loop.  tried: the names
\* passed to gst_element_factory_make so far; actual: actual_encoder_name,
\* NULL when the list is exhausted.
RECURSIVE TryEncoders(_, _, _, _)
TryEncoders(list, i, avail, tried) ==
    IF i > Len(list) THEN [tried |-> tried, actual |-> NULL]
    ELSE IF i > 1 /\ list[i] = list[1]
         THEN TryEncoders(list, i + 1, avail, tried)
    ELSE IF list[i] \in avail
         THEN [tried |-> Append(tried, list[i]), actual |-> Some(list[i])]
    ELSE TryEncoders(list, i + 1, avail, Append(tried, list[i]))

\* The backend of one build: the encoders that can be made, and whether
\* another step fails, before the choice of the encoder (lines 826-874) or
\* after it (lines 953-1030).
PersistedBuildEnvs ==
    [avail : SUBSET PersistedEncoders, fail : {"none", "before", "after"}]

\* What one build did about the encoder: "no_encoder" is the goto error of
\* line 909.
Selection(encoder_type, env) ==
    LET sel == TryEncoders(EncoderFallbacks(encoder_type), 1, env.avail, <<>>) IN
    [configured |-> encoder_type, avail |-> env.avail, tried |-> sel.tried,
     actual |-> sel.actual,
     outcome |-> IF sel.actual = NULL THEN "no_encoder"
                 ELSE IF env.fail = "after" THEN "failed" ELSE "running"]

\* main, lines 1087-1108: the first build; when it succeeds the daemon is
\* started, when it fails the process exits.
PersistServe ==
    /\ mainpc = "loaded"
    /\ \E env \in PersistedBuildEnvs :
        LET sel == Selection(config.encoder_type, env) IN
        /\ selection' = IF env.fail = "before" THEN selection ELSE Some(sel)
        /\ IF env.fail # "before" /\ sel.outcome = "running"
           THEN /\ pipeline' = Some([host |-> config.host, port |-> config.port,
                                      encoder |-> Get(sel.actual)])
                /\ bus' = Some("bus")
                /\ daemon' = TRUE
                /\ mainpc' = "poll"
           ELSE /\ mainpc' = "exited"
                /\ UNCHANGED <<pipeline, bus, daemon>>
    /\ UNCHANGED <<config, config_file, saved, pipeline_is_restarting, nreq>>
    /\ UNCHANGED persistVars

\* process_config_update of the variant (lines 604-741) for a body that
\* loads: merge, restart request or sink patch, and the file written when
\* a value changed, all with state_mutex held.
PersistUpdate(doc) ==
    /\ daemon
    /\ mainpc = "poll"
    /\ nreq < MaxRequests
    /\ LET m == PersistedMerge(config, doc) IN
        /\ config' = m.config
        /\ pipeline_is_restarting' =
                (pipeline_is_restarting \/ m.needs_pipeline_rebuild)
        /\ pipeline' = IF ~m.needs_pipeline_rebuild /\ m.needs_udp_update
                       THEN Some(PatchSink(Get(pipeline), m.config))
                       ELSE pipeline
        /\ IF m.config_modified
           THEN \E outcome \in SaveOutcomes :
                    /\ config_file' =
                            save_config_to_file(config_file, m.config, outcome)
                    /\ saved' = (outcome = "saved")
           ELSE UNCHANGED <<config_file, saved>>
    /\ nreq' = nreq + 1
    /\ UNCHANGED <<bus, daemon, mainpc, selection>>
    /\ UNCHANGED persistVars

\* The process ends and is started again: init_config, the file stays.
PersistRestart ==
    /\ mainpc = "poll"
    /\ config' = PersistedInitConfig
    /\ pipeline' = NULL
    /\ bus' = NULL
    /\ daemon' = FALSE
    /\ pipeline_is_restarting' = FALSE
    /\ mainpc' = "start"
    /\ UNCHANGED <<config_file, saved, nreq, selection>>
    /\ UNCHANGED persistVars

\* Documents of POST /config: values at, inside and outside the bounds.
PersistedDocs ==
    { PersistedDoc([host |-> JStr("10.0.0.5")]),
      PersistedDoc([host |-> JStr(DEFAULT_HOST)]),
      PersistedDoc([port |-> JInt(65535)]),
      PersistedDoc([port |-> JInt(65536)]),
      PersistedDoc([port |-> JInt(0), width |-> JInt(1920)]),
      PersistedDoc([width |-> JInt(4608), height |-> JInt(2592)]),
      PersistedDoc([width |-> JInt(4609), framerate |-> JInt(121)]),
      PersistedDoc([camera |-> JStr("imx708"), encoder |-> JStr("x264enc")]),
      PersistedDoc([encoder |-> JStr("openh264enc")]),
      PersistedDoc([encoder |-> JStr("mpph264enc")]) }

\* A file somebody wrote by hand, with values outside the bounds.
UserFile ==
    JsonFile(PersistedDoc([host |-> JStr("10.0.0.9"), port |-> JInt(5001),
                           width |-> JInt(5000), framerate |-> JInt(60)]))

InitPersist ==
    /\ config = PersistedInitConfig
    /\ config_file \in {NULL, Some(CorruptFile), Some(UserFile)}
    /\ saved = FALSE
    /\ pipeline = NULL
    /\ bus = NULL
    /\ stats = InitStats
    /\ pipeline_is_restarting = FALSE
    /\ should_terminate = FALSE
    /\ state_mutex = NULL
    /\ daemon = FALSE
    /\ mainpc = "start"
    /\ buildret = "start"
    /\ conn = [t \in Threads |-> IdleConn]
    /\ nreq = 0
    /\ nevents = 0
    /\ cycle = NoCycle
    /\ unreleased = {}
    /\ log = <<InitConfig>>
    /\ acked = 1
    /\ handles = <<>>
    /\ bus_ref = NULL
    /\ reported = NULL
    /\ selection = NULL
    /\ stats_mutex = NULL
    /\ probe = IdleProbe

NextPersist ==
    \/ PersistLoad
    \/ PersistServe
    \/ \E doc \in PersistedDocs : PersistUpdate(doc)
    \/ PersistRestart

SpecPersist == InitPersist /\ [][NextPersist]_vars

(***************************************************************************)
(* Vocabulary of the properties.                                           *)
(***************************************************************************)
ConfigFields == DOMAIN InitConfig

ChangedFields(a, b) == {f \in ConfigFields : a[f] # b[f]}

SinkOnlyFields == {"host", "port"}

StructuralFields ==
    {"src_type", "device", "encoder_type", "width", "height", "framerate",
     "autofocus"}

IsGet(c) == c.req.method = "GET"
IsPost(c) == c.req.method = "POST"

\* The handler of t ends its update in this step (PostDecide).
Decides(t) == conn[t].pc = "deciding" /\ conn'[t].pc = "updated"

\* The document of a POST whose body loaded.
DocOf(c) == Get(c.root).fields

InBuild == mainpc \in {"build_teardown", "build_construct", "build_settle"}

\* The bounds as the specification states them: an integer of the given
\* range, as a 64-bit value.
SpecInRange(f, value) ==
    /\ value.t = "integer"
    /\ value.hi = 0
    /\ CASE f = "width" -> value.v >= 320 /\ value.v <= SpecMaxWidth
         [] f = "height" -> value.v >= 240 /\ value.v <= SpecMaxHeight
         [] f = "framerate" -> value.v >= 1 /\ value.v <= 120

\* An integer outside the stated range.
SpecRejects(f, value) == value.t = "integer" /\ ~SpecInRange(f, value)

BoundedFields == {"width", "height", "framerate"}

(***************************************************************************)
(* C1: a POST /config whose only changed fields are host and/or port,      *)
(* processed while a pipeline is live, leaves pipeline_is_restarting and   *)
(* the statistics as they are and leaves the sink of the running pipeline  *)
(* at the new host and port.                                               *)
(***************************************************************************)
C1_HotPatchOnly ==
    [][\A t \in Threads :
        ( /\ Decides(t)
          /\ pipeline # NULL
          /\ ChangedFields(Get(conn[t].old), config) # {}
          /\ ChangedFields(Get(conn[t].old), config) \subseteq SinkOnlyFields )
        => ( /\ pipeline_is_restarting' = pipeline_is_restarting
             /\ stats' = stats
             /\ pipeline' # NULL
             /\ Get(pipeline').host = config.host
             /\ Get(pipeline').port = config.port )]_vars

(***************************************************************************)
(* C2 as stated: when the main loop is back from the rebuild a restart     *)
(* request led to, exactly one teardown and exactly one build have         *)
(* occurred and the statistics have been reset exactly once.               *)
(***************************************************************************)
RebuildDone ==
    /\ buildret \in {"rebuild", "retry"}
    /\ mainpc \in {"loop_top", "poll", "cleanup", "release", "exited"}

C2_ExactlyOneBuild ==
    RebuildDone =>
        cycle.teardowns = 1 /\ cycle.builds = 1 /\ cycle.resets = 1

(***************************************************************************)
(* C2 as amended: a POST /config that changes a structural field sets      *)
(* pipeline_is_restarting; the rebuild a taken restart request leads to    *)
(* tears the old pipeline down exactly once; it ends after one build and   *)
(* one statistics reset when the first attempt succeeds, and after a       *)
(* second build when the first attempt fails, with at most one reset per   *)
(* attempt.                                                                *)
(***************************************************************************)
RebuildEnds ==
    /\ buildret \in {"rebuild", "retry"}
    /\ mainpc \in {"build_construct", "build_settle"}
    /\ mainpc' \in {"loop_top", "cleanup"}

C2_RebuildCounts ==
    [][ /\ \A t \in Threads :
            ( /\ Decides(t)
              /\ ChangedFields(Get(conn[t].old), config) \cap StructuralFields # {} )
            => pipeline_is_restarting'
        /\ RebuildEnds =>
            /\ cycle'.teardowns = 1
            /\ cycle'.resets <= cycle'.builds
            /\ IF buildret = "rebuild"
               THEN mainpc = "build_settle" /\ cycle'.builds = 1 /\ cycle'.resets = 1
               ELSE cycle'.builds = 2 ]_vars

\* A rebuild that succeeded at once has ended and frames are counted again.
C2_Witness ==
    /\ buildret = "rebuild"
    /\ mainpc = "poll"
    /\ cycle.teardowns = 1
    /\ cycle.builds = 1
    /\ cycle.resets = 1
    /\ stats.frame_count > 0

(***************************************************************************)
(* C3: after a POST /config each of width, height and framerate holds the  *)
(* document's value exactly when that value is an integer within           *)
(* [320,4608], [240,2592], [1,120], and its prior value otherwise,         *)
(* whatever the other fields of the document are; a GET /config that       *)
(* follows returns that configuration.                                     *)
(***************************************************************************)
Updated(c) == IsPost(c) /\ c.pc \in {"updated", "sent"} /\ c.root # NULL

C3_FieldwiseMerge ==
    \A t \in Threads :
        /\ Updated(conn[t]) =>
            \A f \in BoundedFields :
                log[conn[t].idx][f] =
                    IF SpecInRange(f, DocOf(conn[t])[f])
                    THEN DocOf(conn[t])[f].v
                    ELSE Get(conn[t].old)[f]
        /\ (IsGet(conn[t]) /\ conn[t].pc = "sent") =>
            conn[t].resp.config = Some(ConfigJson(log[Len(log)]))

(***************************************************************************)
(* C4: in every reachable state config.width is in [320,4608],             *)
(* config.height in [240,2592] and config.framerate in [1,120].            *)
(***************************************************************************)
C4_ConfigInBounds ==
    /\ config.width >= 320 /\ config.width <= SpecMaxWidth
    /\ config.height >= 240 /\ config.height <= SpecMaxHeight
    /\ config.framerate >= 1 /\ config.framerate <= 120

\* An update whose document carries a value outside each range has been
\* applied, and one carrying a 64-bit value has been.
C4_Witness ==
    \E t \in Threads :
        /\ Updated(conn[t])
        /\ conn[t].pc = "sent"
        /\ SpecRejects("width", DocOf(conn[t])["width"])
        /\ SpecRejects("height", DocOf(conn[t])["height"])
        /\ SpecRejects("framerate", DocOf(conn[t])["framerate"])
        /\ log[conn[t].idx] # InitConfig

(***************************************************************************)
(* C5: a GET /config returns the configuration as it was before or after   *)
(* each whole update, never one holding only some of an update's fields;   *)
(* updates of concurrent POST /config requests are applied one after the   *)
(* other, each to the result of the one before.                            *)
(***************************************************************************)
\* process_config_update as one step on a configuration.
ApplyWhole(cfg, root) ==
    MergeStructuralFields(
        MergeSinkFields([config |-> cfg, needs_pipeline_rebuild |-> FALSE,
                         needs_udp_update |-> FALSE], root), root).config

Answered(c) == IsGet(c) /\ c.pc = "sent"

C5_NoTornRead ==
    \A t \in Threads :
        /\ Answered(conn[t]) =>
            \E k \in 1..Len(log) : conn[t].resp.config = Some(ConfigJson(log[k]))
        /\ Updated(conn[t]) =>
            /\ conn[t].idx \in 2..Len(log)
            /\ Get(conn[t].old) = log[conn[t].idx - 1]
            /\ log[conn[t].idx] = ApplyWhole(log[conn[t].idx - 1], Get(conn[t].root))

\* A GET that arrived while an update of two fields was under way has
\* waited and been answered with the updated configuration, before the
\* POST was answered.
C5_Witness ==
    \E t, u \in Threads :
        /\ Answered(conn[t])
        /\ Updated(conn[u])
        /\ conn[u].pc = "updated"
        /\ Cardinality(ChangedFields(Get(conn[u].old), log[conn[u].idx])) = 2
        /\ conn[t].floor < conn[u].idx
        /\ conn[t].resp.config = Some(ConfigJson(log[conn[u].idx]))

(***************************************************************************)
(* C6: a GET /config that begins after the response to a POST /config was  *)
(* sent returns a configuration at least as new as that update, also while *)
(* the rebuild it asked for is pending; a POST is answered 200 only after  *)
(* its update is complete (merged, decided, mutex released).               *)
(***************************************************************************)
\* The JSON object json reports every field of the configuration cfg.
Reports(json, cfg) ==
    /\ json.host = JStr(cfg.host) /\ json.port = JInt(cfg.port)
    /\ json.src = JStr(cfg.src_type) /\ json.device = JStr(cfg.device)
    /\ json.encoder = JStr(cfg.encoder_type)
    /\ json.width = JInt(cfg.width) /\ json.height = JInt(cfg.height)
    /\ json.framerate = JInt(cfg.framerate)
    /\ json.autofocus = JBool(cfg.autofocus)
    /\ json.lens_position = JReal(cfg.lens_position)

C6_ReadAfterResponse ==
    /\ acked \in 1..Len(log)
    /\ \A t \in Threads :
        /\ Answered(conn[t]) =>
            \E k \in conn[t].floor..Len(log) :
                Reports(Get(conn[t].resp.config), log[k])
        /\ (IsPost(conn[t]) /\ conn[t].pc = "sent"
              /\ conn[t].resp.status = MHD_HTTP_OK) =>
            /\ conn[t].root # NULL
            /\ conn[t].idx \in 2..acked
            /\ state_mutex # Some(t)

\* A GET that began after the 200 of an update asking for a rebuild has
\* been answered with the new host and framerate, the rebuild still pending.
C6_Witness ==
    \E t \in Threads :
        /\ Answered(conn[t])
        /\ conn[t].floor = 2
        /\ pipeline_is_restarting
        /\ Get(conn[t].resp.config).host = JStr("10.0.0.5")
        /\ Get(conn[t].resp.config).framerate = JInt(30)
        /\ Get(pipeline).framerate = 60

(***************************************************************************)
(* C7: a POST /config that arrives while build_and_run_pipeline is tearing *)
(* down or building is merged into the configuration immediately, without  *)
(* waiting for the rebuild to finish: whenever the handler of a loadable   *)
(* POST /config has been called during a build, its merge can proceed.     *)
(***************************************************************************)
C7_MergedDuringRebuild ==
    \A t \in Threads :
        ( /\ InBuild
          /\ conn[t].pc = "called"
          /\ IsPostConfig(conn[t].req)
          /\ conn[t].req.body.kind \in {"object", "array"} )
        => ENABLED PostLock(t)

(***************************************************************************)
(* C8: when a POST /config holds an out-of-range width, height or          *)
(* framerate, the response to that request identifies the rejected field   *)
(* (it is not the response of an update without rejections), and the field *)
(* keeps its stored value.                                                 *)
(***************************************************************************)
RejectedFields(c) == {f \in BoundedFields : SpecRejects(f, DocOf(c)[f])}

C8_RejectionReported ==
    \A t \in Threads :
        ( /\ Updated(conn[t])
          /\ conn[t].pc = "sent"
          /\ RejectedFields(conn[t]) # {} )
        => ( /\ conn[t].resp.text # RespUpdated
             /\ \A f \in RejectedFields(conn[t]) :
                    log[conn[t].idx][f] = Get(conn[t].old)[f] )

(***************************************************************************)
(* C9: a POST /config whose body is empty or is not JSON is answered 400   *)
(* {"error":"Invalid JSON"} and the step leaves the configuration,         *)
(* pipeline_is_restarting, the pipeline with its sink address and the      *)
(* statistics unchanged; a body holding a JSON object or array is answered *)
(* 200 {"status":"configuration updated"}.                                 *)
(***************************************************************************)
PostAnswered(t) ==
    /\ IsPostConfig(conn[t].req)
    /\ conn[t].pc # "sent"
    /\ conn'[t].pc = "sent"

C9_InvalidJson ==
    [][\A t \in Threads :
        PostAnswered(t) =>
            /\ conn[t].req.body.kind \in {"empty", "garbage"} =>
                /\ conn'[t].resp.status = MHD_HTTP_BAD_REQUEST
                /\ conn'[t].resp.text = RespInvalidJson
                /\ conn[t].pc = "called"
                /\ UNCHANGED <<config, pipeline_is_restarting, pipeline, stats, log>>
            /\ conn[t].req.body.kind \in {"object", "array"} =>
                /\ conn'[t].resp.status = MHD_HTTP_OK
                /\ conn'[t].resp.text = RespUpdated]_vars

\* An empty body has been answered 400 after an earlier update had changed
\* the configuration and asked for a rebuild.
C9_Witness ==
    \E t \in Threads :
        /\ IsPostConfig(conn[t].req)
        /\ conn[t].pc = "sent"
        /\ conn[t].req.body.kind = "empty"
        /\ conn[t].resp.status = MHD_HTTP_BAD_REQUEST
        /\ config # InitConfig
        /\ pipeline_is_restarting

(***************************************************************************)
(* C10: whenever build_and_run_pipeline returns failure, data->pipeline    *)
(* and data->bus are NULL and every handle created during the attempt has  *)
(* been released.                                                          *)
(***************************************************************************)
C10_NoHandleAfterFailure ==
    [][( /\ mainpc = "build_construct"
         /\ mainpc' # "build_construct"
         /\ mainpc' # "build_settle" )
       => ( /\ pipeline' = NULL
            /\ bus' = NULL
            /\ unreleased' = {} )]_vars

(***************************************************************************)
(* C11: after a rebuild triggered by POST /config has failed, GET /stats   *)
(* and GET /config continue to be answered: as long as no fatal bus        *)
(* message has been consumed, the HTTP server started after the first      *)
(* build keeps running, whatever became of the rebuilds.                   *)
(***************************************************************************)
C11_ServedAfterFailedRebuild ==
    (buildret # "start" /\ nevents = 0) => daemon

(***************************************************************************)
(* C12: when the main loop consumes an ERROR or an end-of-stream message,  *)
(* should_terminate becomes true; once true it is never cleared, and from  *)
(* then on no restart request is taken and no teardown or build is         *)
(* executed, also when pipeline_is_restarting is or becomes set.           *)
(***************************************************************************)
Terminating == {"cleanup", "release", "exited"}

C12_TerminationAbsorbing ==
    [][ /\ \A msg \in {"GST_MESSAGE_ERROR", "GST_MESSAGE_EOS"} :
            PollMessage(msg) => should_terminate'
        /\ should_terminate =>
            /\ should_terminate'
            /\ mainpc \in Terminating
            /\ mainpc' \in Terminating
            /\ cycle' = cycle ]_vars

\* The process has exited on a fatal message with a restart request that
\* was never taken.
C12_Witness ==
    /\ should_terminate
    /\ pipeline_is_restarting
    /\ buildret = "start"
    /\ nevents = 1
    /\ mainpc = "exited"

(***************************************************************************)
(* C13: a restart request causes at most two build attempts, after which   *)
(* the controller is running or terminating; a rebuild starts only by      *)
(* taking a restart request, which only a POST /config sets; a fatal bus   *)
(* message leads to termination and sets no restart request.               *)
(***************************************************************************)
C13_BoundedRebuilds ==
    [][ /\ cycle'.builds <= 2
        /\ mainpc' \in {"loop_top", "poll"} =>
            (pipeline' # NULL /\ bus' # NULL /\ ~should_terminate')
        /\ mainpc' \in Terminating => (should_terminate' \/ buildret' = "start")
        /\ (mainpc' = "rebuild" /\ mainpc # "rebuild") =>
            (pipeline_is_restarting /\ ~pipeline_is_restarting')
        /\ (pipeline_is_restarting' /\ ~pipeline_is_restarting) =>
            \E t \in Threads : Decides(t)
        /\ \A msg \in {"GST_MESSAGE_ERROR", "GST_MESSAGE_EOS"} :
            PollMessage(msg) =>
                (mainpc' = "cleanup" /\ UNCHANGED pipeline_is_restarting) ]_vars

\* Both attempts of a rebuild failed and the controller is terminating,
\* with a further restart request left untaken.
C13_Witness ==
    /\ buildret = "retry"
    /\ cycle.builds = 2
    /\ pipeline = NULL
    /\ should_terminate
    /\ mainpc = "cleanup"
    /\ pipeline_is_restarting

(***************************************************************************)
(* C14: when the first build fails the process exits without having        *)
(* started the HTTP server; no request is accepted before a first          *)
(* pipeline has been built and started.                                    *)
(***************************************************************************)
C14_NoServerBeforeFirstPipeline ==
    /\ (buildret = "start" /\ (mainpc = "start" \/ InBuild)) =>
        (~daemon /\ nreq = 0)
    /\ (buildret = "start" /\ mainpc = "exited" /\ nevents = 0) =>
        (~daemon /\ nreq = 0 /\ pipeline = NULL)
    /\ daemon => ~(mainpc \in {"start", "exited"})

\* The first build failed and the process has exited.
C14_Witness ==
    /\ buildret = "start"
    /\ mainpc = "exited"
    /\ nevents = 0
    /\ cycle.builds = 1
    /\ pipeline = NULL
    /\ ~daemon

(***************************************************************************)
(* C15: the statistics are reset only when a build completes successfully: *)
(* a build attempt that returns failure leaves them as they are, each      *)
(* successful build resets them exactly once, and the decision step of a   *)
(* POST /config (restart request or hot patch) never resets them.          *)
(***************************************************************************)
C15_ResetOnlyOnSuccess ==
    [][ /\ (mainpc = "build_construct" /\ mainpc' # "build_construct") =>
            IF mainpc' = "build_settle"
            THEN stats' = InitStats /\ cycle'.resets = cycle.resets + 1
            ELSE stats' = stats /\ cycle'.resets = cycle.resets
        /\ \A t \in Threads : Decides(t) => (stats' = stats /\ cycle' = cycle) ]_vars

(***************************************************************************)
(* C16: a POST /config whose present fields all equal the current values   *)
(* yields an empty delta: the update leaves the configuration as it was,   *)
(* asks for no rebuild, patches no sink and resets no statistics.          *)
(***************************************************************************)
C16_EmptyDelta ==
    [][\A t \in Threads :
        (Decides(t) /\ ChangedFields(Get(conn[t].old), config) = {}) =>
            /\ ~conn[t].needs_pipeline_rebuild
            /\ ~conn[t].needs_udp_update
            /\ UNCHANGED <<pipeline_is_restarting, pipeline, stats>> ]_vars

(***************************************************************************)
(* C17: in every reachable state the configured port is a 16-bit port      *)
(* number: config.port is in 0..65535.                                     *)
(***************************************************************************)
C17_PortIsUint16 == config.port \in 0..65535

(***************************************************************************)
(* C18: every request is answered according to the route table, whatever   *)
(* the controller is doing: GET /health gives 200 {"status":"ok"}; GET     *)
(* /config, GET /stats and GET /devices give 200 with their object; POST   *)
(* /config gives 200 or 400; every other method and path gives 404         *)
(* {"error":"Not Found"} in a step that changes nothing of the controller. *)
(***************************************************************************)
IsAnswered(t) == conn[t].pc # "sent" /\ conn'[t].pc = "sent"

LoadsFile ==
    /\ mainpc = "start"
    /\ mainpc' = "loaded"
    /\ config_file # NULL
    /\ Get(config_file).kind = "json"

C19_LoadEqualsUpdate ==
    [][ LoadsFile =>
            /\ config' =
                 PersistedMerge(PersistedInitConfig, Get(config_file).doc).config
            /\ saved => SavedJson(config') = Get(config_file).doc ]_vars

(***************************************************************************)
(* C20 as stated: after every POST /config that changes a value the file   *)
(* holds exactly the in-memory configuration as of the end of the update;  *)
(* a POST that changes no value does not write the file.                   *)
(***************************************************************************)
Updates == nreq' = nreq + 1

C20_FileFollowsUpdates ==
    [][ Updates =>
            IF config' # config
            THEN config_file' = Some(JsonFile(SavedJson(config')))
            ELSE UNCHANGED config_file ]_vars

(***************************************************************************)
(* C20: after a POST /config that changes a value, the file holds exactly  *)
(* the in-memory configuration as of the end of the update when            *)
(* save_config_to_file succeeded; when it failed the file is as it was     *)
(* before or does not parse; a POST that changes no value does not call    *)
(* save_config_to_file.                                                    *)
(***************************************************************************)
C20_FileFollowsSavedUpdates ==
    [][ Updates =>
            IF config' # config
            THEN IF saved'
                 THEN config_file' = Some(JsonFile(SavedJson(config')))
                 ELSE config_file' \in {config_file, Some(CorruptFile)}
            ELSE UNCHANGED <<config_file, saved>> ]_vars

\* Two updates have changed values and the file holds the configuration
\* after the second.
C20_Witness ==
    /\ mainpc = "poll"
    /\ nreq = 2
    /\ saved
    /\ config.host = "10.0.0.5"
    /\ config.width = 4608
    /\ config_file = Some(JsonFile(SavedJson(config)))

(***************************************************************************)
(* C21: state_mutex is not held across the teardown wait, the quiescence   *)
(* sleep or the build and start calls: while build_and_run_pipeline is in  *)
(* any of them, a GET /config or a POST /config that has arrived can take  *)
(* the lock.                                                               *)
(***************************************************************************)
C21_LockFreeWhileBuilding ==
    InBuild =>
        \A t \in Threads :
            conn[t].pc = "called" =>
                /\ IsGetConfig(conn[t].req) => ENABLED GetConfig(t)
                /\ (IsPostConfig(conn[t].req) /\ JsonLoadb(conn[t].req.body) # NULL)
                        => ENABLED PostLock(t)

(***************************************************************************)
(* The controller on a backend that may complete a change of state late    *)
(* or never: one client, and the threads of the program scheduled fairly.  *)
(* Nothing obliges the backend to complete a pending change of state, nor  *)
(* a client to send a request.                                             *)
(***************************************************************************)
LiveEnvs ==
    { HealthyEnv,
      [HealthyEnv EXCEPT !.async = TRUE],
      [HealthyEnv EXCEPT !.fail = "playing"] }

LiveRequests ==
    { GetReq("/config"),
      PostReq("/config", ObjectBody(Doc([width |-> JInt(1920), height |-> JInt(1080)]))) }

\* The steps of the main thread.
MainStep ==
    \/ build_and_run_pipeline(LiveEnvs)
    \/ LoopTop
    \/ PollTimeout
    \/ \E msg \in BusMessages : PollMessage(msg)
    \/ StopDaemon
    \/ Release

\* The steps of the handler of one connection.
HandlerStep(t) ==
    \/ GetConfig(t)
    \/ PostLock(t)
    \/ PostMerge(t)
    \/ PostDecide(t)
    \/ PostRespond(t)
    \/ RequestCompleted(t)

NextLive ==
    \/ MainStep
    \/ StateChangeDone
    \/ HttpArrive("h1", LiveRequests)
    \/ HandlerStep("h1")

SpecLive ==
    /\ Init
    /\ [][NextLive]_vars
    /\ WF_vars(MainStep)
    /\ WF_vars(HandlerStep("h1"))

(***************************************************************************)
(* C22: every call of build_and_run_pipeline eventually returns and        *)
(* releases state_mutex, whatever the backend does: whenever the main      *)
(* thread is inside the function, eventually it is outside of it and does  *)
(* not hold the lock.                                                      *)
(***************************************************************************)
C22_BuildReturns ==
    InBuild ~> (~InBuild /\ state_mutex # Some(MainThread))

(***************************************************************************)
(* The controller on every backend: one client changing the encoder or     *)
(* the resolution, and builds on any combination of failing factory,       *)
(* available encoders, link result and kind of state change.               *)
(***************************************************************************)
BuildRequests ==
    { GetReq("/config") }
    \cup { PostReq("/config", ObjectBody(d)) :
            d \in { Doc([encoder |-> JStr("x264enc")]),
                    Doc([encoder |-> JStr("openh264enc")]),
                    Doc([width |-> JInt(1920), height |-> JInt(1080)]) } }

NextBuild ==
    \/ build_and_run_pipeline(BuildEnvs)
    \/ StateChangeDone
    \/ LoopTop
    \/ PollTimeout
    \/ \E msg \in BusMessages : PollMessage(msg)
    \/ StopDaemon
    \/ Release
    \/ HttpArrive("h1", BuildRequests)
    \/ HandlerStep("h1")

SpecBuild == Init /\ [][NextBuild]_vars

(***************************************************************************)
(* C23: for every configured encoder and every set of available encoders, *)
(* the encoder-specific parameters set during a build are those of the     *)
(* encoder element that was instantiated, after fallback, never those of   *)
(* the configured encoder that could not be made.                          *)
(***************************************************************************)
C23_TuningOfActualEncoder ==
    pipeline # NULL => Get(pipeline).tuning = Get(pipeline).encoder

(***************************************************************************)
(* C24: every build attempt that follows the destruction of a pipeline     *)
(* handle is preceded by the quiescence delay between that destruction and *)
(* the start of the new build, the retry made right after a failed rebuild *)
(* included: when build_and_run_pipeline goes on to create the new         *)
(* pipeline, no handle has been destroyed without the delay having         *)
(* elapsed since.                                                          *)
(***************************************************************************)
StartsConstruction == mainpc = "build_teardown" /\ mainpc' = "build_construct"

C24_QuiescenceBeforeBuild ==
    [][StartsConstruction => ~cycle'.unquiesced]_vars

(***************************************************************************)
(* C25: an event of a pipeline that has been destroyed is never acted      *)
(* upon: the bus main polls is the bus of the pipeline it owns at that     *)
(* moment, a live handle; a state change is printed only for a message     *)
(* whose source is the owned pipeline, looked at with state_mutex taken;   *)
(* and a message sets should_terminate only when it was popped from the    *)
(* bus of the owned pipeline.                                              *)
(***************************************************************************)
PollsOwnedPipeline ==
    /\ bus_ref # NULL
    /\ bus_ref = bus
    /\ pipeline # NULL
    /\ Get(bus_ref) = Get(pipeline).id
    /\ handles[Get(pipeline).id] = "live"

C25_NoStaleEvents ==
    [][ /\ mainpc = "poll" => PollsOwnedPipeline
        /\ reported' # reported =>
            /\ state_mutex = NULL
            /\ PollsOwnedPipeline
            /\ reported' = Some(PipelineObject(Get(pipeline).id))
        /\ (mainpc = "poll" /\ should_terminate' /\ ~should_terminate) =>
            PollsOwnedPipeline ]_vars

\* The first pipeline has been destroyed by a rebuild and a state change of
\* the second one has been printed.
C25_Witness ==
    /\ Len(handles) >= 2
    /\ handles[1] = "destroyed"
    /\ pipeline # NULL
    /\ Get(pipeline).id = 2
    /\ reported = Some(PipelineObject(2))
    /\ mainpc = "loop_top"

(***************************************************************************)
(* C26: consuming a WARNING, an INFO or a state-change message changes     *)
(* none of should_terminate, pipeline_is_restarting, the pipeline handle,  *)
(* the bus, the configuration and the statistics.                          *)
(***************************************************************************)
Informational ==
    {"GST_MESSAGE_WARNING", "GST_MESSAGE_INFO", "GST_MESSAGE_STATE_CHANGED"}

C26_InformationalNoEffect ==
    [][\A msg \in Informational :
        PollMessage(msg) =>
            UNCHANGED <<should_terminate, pipeline_is_restarting, pipeline, bus,
                        handles, config, stats>> ]_vars

\* A message that is not fatal has been consumed while a restart request
\* was waiting: the request is still there and main goes on.
C26_Witness ==
    /\ nevents = 1
    /\ ~should_terminate
    /\ pipeline_is_restarting
    /\ mainpc = "loop_top"
    /\ pipeline # NULL
    /\ bus # NULL

(***************************************************************************)
(* C27: pipeline handles are created and destroyed by the main thread      *)
(* only, never in a step of an HTTP handler; build_and_run_pipeline runs   *)
(* in one thread at a time, holding state_mutex; at most one handle is     *)
(* alive at any time, the one data->pipeline points to; and a handler      *)
(* changes pipeline_is_restarting only by setting it, and the pipeline     *)
(* only by patching the sink of the live handle, in the step of            *)
(* process_config_update that holds state_mutex.                           *)
(***************************************************************************)
LiveHandles == {i \in DOMAIN handles : handles[i] = "live"}

OneLiveHandle ==
    /\ Cardinality(LiveHandles) <= 1
    /\ LiveHandles = IF pipeline = NULL THEN {} ELSE {Get(pipeline).id}
    /\ InBuild => state_mutex = Some(MainThread)

HandlerStepTaken == conn' # conn

C27_MainOwnsPipeline ==
    /\ []OneLiveHandle
    /\ [][ HandlerStepTaken =>
            /\ handles' = handles
            /\ (pipeline' # pipeline \/ pipeline_is_restarting' # pipeline_is_restarting)
                    => \E t \in Threads : Decides(t) /\ state_mutex = Some(t)
            /\ pipeline' # pipeline =>
                    /\ pipeline # NULL
                    /\ pipeline' = Some(PatchSink(Get(pipeline), config))
            /\ pipeline_is_restarting' # pipeline_is_restarting
                    => pipeline_is_restarting' ]_vars

\* After a rebuild a handler has patched the sink of the second pipeline,
\* the only live handle.
C27_Witness ==
    /\ handles = <<"destroyed", "live">>
    /\ pipeline # NULL
    /\ Get(pipeline).id = 2
    /\ Get(pipeline).width = 1920
    /\ Get(pipeline).host = "10.0.0.5"
    /\ \E t \in Threads :
        /\ conn[t].pc = "updated"
        /\ conn[t].needs_udp_update
        /\ ~conn[t].needs_pipeline_rebuild

(***************************************************************************)
(* C28: when the rebuild asked for by a configuration update fails, the    *)
(* second attempt made by the main loop uses the default configuration:    *)
(* the configuration has been restored to the defaults when the retry      *)
(* enters build_and_run_pipeline; and the controller terminates after a    *)
(* failed build only when that second attempt failed.                      *)
(***************************************************************************)
C28_RetryWithDefaults ==
    [][ /\ (mainpc = "retry" /\ mainpc' = "build_teardown") => config = InitConfig
        /\ (InBuild /\ buildret # "start" /\ should_terminate' /\ ~should_terminate)
                => buildret = "retry" ]_vars

(***************************************************************************)
(* C29: an integer of POST /config that does not fit in 32 bits lies       *)
(* outside the range of width, height and framerate and is rejected: the   *)
(* merge of the document leaves the field as it was.                       *)
(***************************************************************************)
Merges(t) == conn[t].pc = "merging" /\ conn'[t].pc = "deciding"

Exceeds32Bits(value) == value.t = "integer" /\ value.hi # 0

C29_WideIntegerRejected ==
    [][\A t \in Threads :
        Merges(t) =>
            \A f \in BoundedFields :
                Exceeds32Bits(DocOf(conn[t])[f]) => config'[f] = config[f] ]_vars

(***************************************************************************)
(* C30: in the variant with a persisted configuration the encoder used by  *)
(* a build is the first available one in the order: configured encoder,    *)
(* v4l2h264enc, omxh264enc, x264enc, nvh264enc, vaapih264enc; the names    *)
(* are tried in that order, none of them twice, up to the first one that   *)
(* is available; and the build fails for lack of an encoder exactly when   *)
(* none of them is available.                                              *)
(***************************************************************************)
ListedEncoders ==
    <<"v4l2h264enc", "omxh264enc", "x264enc", "nvh264enc", "vaapih264enc">>

Candidates(configured) ==
    {configured} \cup {ListedEncoders[i] : i \in DOMAIN ListedEncoders}

\* The place of a name in the order of the claim: the configured one first.
Rank(configured, name) ==
    IF name = configured THEN 0
    ELSE CHOOSE i \in DOMAIN ListedEncoders : ListedEncoders[i] = name

IsFirstAvailable(configured, avail, name) ==
    /\ name \in Candidates(configured) \cap avail
    /\ \A other \in Candidates(configured) \cap avail :
            Rank(configured, name) <= Rank(configured, other)

C30_EncoderFallbackOrder ==
    selection # NULL =>
        LET s == Get(selection)
            usable == Candidates(s.configured) \cap s.avail
        IN  /\ (usable = {}) <=> (s.actual = NULL)
            /\ (usable = {}) <=> (s.outcome = "no_encoder")
            /\ s.actual # NULL =>
                    /\ IsFirstAvailable(s.configured, s.avail, Get(s.actual))
                    /\ s.tried[Len(s.tried)] = Get(s.actual)
            /\ s.actual = NULL =>
                    {s.tried[i] : i \in DOMAIN s.tried} = Candidates(s.configured)
            /\ \A i \in DOMAIN s.tried :
                    /\ s.tried[i] \in Candidates(s.configured)
                    /\ \A j \in DOMAIN s.tried :
                        i < j => Rank(s.configured, s.tried[i])
                                    < Rank(s.configured, s.tried[j])
            /\ (mainpc = "poll" /\ s.outcome = "running") =>
                    Get(pipeline).encoder = Get(s.actual)

\* x264enc is configured and cannot be made: the loop has gone through the
\* list, passing over x264enc the second time, down to vaapih264enc.
C30_Witness ==
    /\ selection # NULL
    /\ Get(selection).configured = "x264enc"
    /\ Get(selection).tried =
            <<"x264enc", "v4l2h264enc", "omxh264enc", "nvh264enc", "vaapih264enc">>
    /\ Get(selection).actual = Some("vaapih264enc")
    /\ mainpc = "poll"
    /\ Get(pipeline).encoder = "vaapih264enc"

(***************************************************************************)
(* The variant that restarts the pipeline on every update                  *)
(* (src/unnamed/part_004): process_config_update stores every field that   *)
(* is present and always asks for a rebuild, main ignores the result of a  *)
(* rebuild, and the statistics carry the frame rate measured against       *)
(* config.framerate.  HttpArrive, GetConfig, PostInvalid, PostRespond,     *)
(* RequestCompleted, PollTimeout, PollMessage, StopDaemon and Release have *)
(* the same text in this variant.                                          *)
(***************************************************************************)
PlainMaxFrames == 11

\* udpsink_probe_callback line 123: the rate is computed once more than
\* this many buffers were counted.
RateAfterFrames == 10

PlainInitConfig == [InitConfig EXCEPT !.autofocus = TRUE, !.lens_position = 1]

\* init_stats (lines 166-176) and the reset of build_and_run_pipeline
\* (lines 607-615).
\*   timed   last_frame_time # 0
\*   target  the config.framerate that buffer_fullness was last computed
\*           against, 0 before the first computation
PlainInitStats == [total_bytes |-> 0, frame_count |-> 0, timed |-> FALSE, target |-> 0]

\* process_config_update lines 317-358: host, port, src, device, encoder,
\* width and height, each stored when present with the right type.
PlainAssignFirst(cfg, root) ==
    LET str(f) == JsonObjectGet(root, f).t = "string"
        int(f) == JsonObjectGet(root, f).t = "integer"
        val(f) == JsonObjectGet(root, f)
    IN [cfg EXCEPT
          !.host = IF str("host") THEN val("host").v ELSE @,
          !.port = IF int("port") THEN ToGint(val("port")) ELSE @,
          !.src_type = IF str("src") THEN val("src").v ELSE @,
          !.device = IF str("device") THEN val("device").v ELSE @,
          !.encoder_type = IF str("encoder") THEN val("encoder").v ELSE @,
          !.width = IF int("width") THEN ToGint(val("width")) ELSE @,
          !.height = IF int("height") THEN ToGint(val("height")) ELSE @]

\* process_config_update lines 360-375: framerate, autofocus, lens_position.
PlainAssignRest(cfg, root) ==
    LET val(f) == JsonObjectGet(root, f)
    IN [cfg EXCEPT
          !.framerate = IF val("framerate").t = "integer"
                        THEN ToGint(val("framerate")) ELSE @,
          !.autofocus = IF val("autofocus").t = "boolean"
                        THEN val("autofocus").v ELSE @,
          !.lens_position = IF val("lens_position").t \in {"real", "integer"}
                            THEN ToGfloat(val("lens_position")) ELSE @]

\* process_config_update lines 304-358: the body loads, state_mutex is
\* taken, the fields up to height are stored.
PlainUpdateLock(t) ==
    /\ conn[t].pc = "called"
    /\ IsPostConfig(conn[t].req)
    /\ JsonLoadb(conn[t].req.body) # NULL
    /\ state_mutex = NULL
    /\ LET root == Get(JsonLoadb(conn[t].req.body))
       IN /\ config' = PlainAssignFirst(config, root)
          /\ conn' = [conn EXCEPT ![t].pc = "plain_merging",
                                  ![t].root = Some(root),
                                  ![t].old = Some(config)]
    /\ state_mutex' = Some(t)
    /\ UNCHANGED <<nreq, log, acked>>
    /\ UNCHANGED mainVars
    /\ UNCHANGED <<stats_mutex, probe, config_file, saved, selection>>
    /\ UNCHANGED <<handles, bus_ref, reported>>

\* process_config_update lines 360-386: the remaining fields are stored,
\* pipeline_is_restarting is set whatever the document held, state_mutex is
\* released.
PlainUpdateFinish(t) ==
    /\ conn[t].pc = "plain_merging"
    /\ config' = PlainAssignRest(config, Get(conn[t].root))
    /\ pipeline_is_restarting' = TRUE
    /\ state_mutex' = NULL
    /\ log' = Append(log, config')
    /\ conn' = [conn EXCEPT ![t].pc = "updated", ![t].idx = Len(log')]
    /\ UNCHANGED <<nreq, acked>>
    /\ UNCHANGED <<pipeline, bus, stats, should_terminate, daemon, mainpc,
                   buildret, nevents, cycle, unreleased>>
    /\ UNCHANGED <<stats_mutex, probe, config_file, saved, selection>>
    /\ UNCHANGED <<handles, bus_ref, reported>>

\* The JSON object of handle_get_stats (lines 272-288): the counters, and
\* target_framerate from config.framerate.
PlainStatsJson(st, cfg) ==
    [total_bytes |-> JInt(st.total_bytes), frame_count |-> JInt(st.frame_count),
     target_framerate |-> JReal(cfg.framerate)]

\* handle_get_stats (lines 260-300): stats_mutex is held, state_mutex is
\* not taken; config.framerate is read at line 282.
PlainGetStats(t) ==
    /\ conn[t].pc = "called"
    /\ IsGetRoute(conn[t].req, "/stats")
    /\ stats_mutex = NULL
    /\ conn' = [conn EXCEPT ![t].pc = "sent",
                            ![t].resp = [NoResp EXCEPT
                                            !.status = MHD_HTTP_OK,
                                            !.stats = Some(PlainStatsJson(stats, config))]]
    /\ UNCHANGED <<config, state_mutex, nreq, log, acked>>
    /\ UNCHANGED mainVars
    /\ UNCHANGED <<stats_mutex, probe, config_file, saved, selection>>
    /\ UNCHANGED <<handles, bus_ref, reported>>

PlainBufferSizes == {1}

\* Line 123 and line 126: the rate is computed for this buffer.
ComputesRate(st, elapsed) == st.timed /\ st.frame_count + 1 > RateAfterFrames /\ elapsed

\* udpsink_probe_callback (lines 104-142) for one buffer, with stats_mutex
\* held and state_mutex not taken: the counters; the time of the first
\* frame; after RateAfterFrames buffers, when time has passed (elapsed),
\* the rate against config.framerate (line 133).
plain_probe_callback(size, elapsed) ==
    /\ pipeline # NULL
    /\ mainpc # "exited"
    /\ stats_mutex = NULL
    /\ stats.frame_count < PlainMaxFrames
    /\ stats' = [total_bytes |-> stats.total_bytes + size,
                 frame_count |-> stats.frame_count + 1,
                 timed |-> TRUE,
                 target |-> IF ComputesRate(stats, elapsed)
                            THEN config.framerate ELSE stats.target]
    /\ UNCHANGED <<config, state_mutex, conn, nreq, log, acked>>
    /\ UNCHANGED <<pipeline, bus, pipeline_is_restarting, should_terminate, daemon,
                   mainpc, buildret, nevents, cycle, unreleased>>
    /\ UNCHANGED <<stats_mutex, probe, config_file, saved, selection>>
    /\ UNCHANGED <<handles, bus_ref, reported>>

\* The pipeline build_and_run_pipeline makes from the configuration (lines
\* 472-600).
PlainPipeline(id, cfg) ==
    [id |-> id, host |-> cfg.host, port |-> cfg.port, src |-> cfg.src_type,
     encoder |-> cfg.encoder_type, width |-> cfg.width, height |-> cfg.height,
     framerate |-> cfg.framerate, autofocus |-> cfg.autofocus,
     lens_position |-> cfg.lens_position]

\* How a call of build_and_run_pipeline ends: gst_pipeline_new fails (line
\* 463), an element is missing or the link fails (goto error), or the
\* pipeline is set to PLAYING.
PlainOutcomes == {"no_pipeline", "error", "playing"}

\* build_and_run_pipeline line 447, called at line 662 or at line 692.
PlainBuildEnter ==
    /\ mainpc \in {"start", "rebuild"}
    /\ state_mutex = NULL
    /\ state_mutex' = Some(MainThread)
    /\ buildret' = mainpc
    /\ mainpc' = "plain_build"
    /\ UNCHANGED <<config, conn, nreq, log, acked>>
    /\ UNCHANGED <<pipeline, bus, stats, pipeline_is_restarting, should_terminate,
                   daemon, nevents, cycle, unreleased>>
    /\ UNCHANGED <<stats_mutex, probe, config_file, saved, selection>>
    /\ UNCHANGED <<handles, bus_ref, reported>>

\* PlainBuild with every failure leaving main, as line 662 does.
PlainBuildFatal(outcome) ==
    /\ mainpc = "plain_build"
    /\ outcome = "playing" => stats_mutex = NULL
    /\ LET released == Unref(handles, pipeline)
           id == Len(released) + 1
       IN /\ handles' = CASE outcome = "no_pipeline" -> released
                          [] outcome = "error" -> Append(released, "destroyed")
                          [] OTHER -> Append(released, "live")
          /\ pipeline' = IF outcome = "playing"
                         THEN Some(PlainPipeline(id, config)) ELSE NULL
          /\ bus' = IF outcome = "playing" THEN Some(id) ELSE NULL
    /\ stats' = IF outcome = "playing" THEN PlainInitStats ELSE stats
    /\ state_mutex' = NULL
    /\ mainpc' = IF outcome # "playing" THEN "exited" ELSE "loop_top"
    /\ daemon' = (daemon \/ (buildret = "start" /\ outcome = "playing"))
    /\ UNCHANGED <<config, conn, nreq, log, acked>>
    /\ UNCHANGED <<pipeline_is_restarting, should_terminate, buildret, nevents,
                   cycle, unreleased>>
    /\ UNCHANGED <<stats_mutex, probe, config_file, saved, selection>>
    /\ UNCHANGED <<bus_ref, reported>>

\* build_and_run_pipeline lines 450-637 and the caller: the old pipeline
\* and bus are released; on a failure both stay NULL and FALSE is returned;
\* else the statistics are reset with stats_mutex held, the pipeline is set
\* to PLAYING and the bus is taken.  Line 662 leaves on FALSE and starts the
\* daemon on TRUE; line 692 drops the result and continues the loop.
PlainBuild(outcome) ==
    /\ mainpc = "plain_build"
    /\ outcome = "playing" => stats_mutex = NULL
    /\ LET released == Unref(handles, pipeline)
           id == Len(released) + 1
       IN /\ handles' = CASE outcome = "no_pipeline" -> released
                          [] outcome = "error" -> Append(released, "destroyed")
                          [] OTHER -> Append(released, "live")
          /\ pipeline' = IF outcome = "playing"
                         THEN Some(PlainPipeline(id, config)) ELSE NULL
          /\ bus' = IF outcome = "playing" THEN Some(id) ELSE NULL
    /\ stats' = IF outcome = "playing" THEN PlainInitStats ELSE stats
    /\ state_mutex' = NULL
    /\ mainpc' = IF buildret = "start" /\ outcome # "playing"
                 THEN "exited" ELSE "loop_top"
    /\ daemon' = (daemon \/ (buildret = "start" /\ outcome = "playing"))
    /\ UNCHANGED <<config, conn, nreq, log, acked>>
    /\ UNCHANGED <<pipeline_is_restarting, should_terminate, buildret, nevents,
                   cycle, unreleased>>
    /\ UNCHANGED <<stats_mutex, probe, config_file, saved, selection>>
    /\ UNCHANGED <<bus_ref, reported>>

\* Lines 679-701 and 739-744, with state_mutex held: leave when
\* should_terminate, take a restart request, or take a reference to the
\* bus for the poll; with no bus, go to the sleep of line 741.
PlainLoopTop ==
    /\ mainpc = "loop_top"
    /\ state_mutex = NULL
    /\ IF should_terminate
       THEN /\ mainpc' = "cleanup"
            /\ UNCHANGED pipeline_is_restarting
       ELSE IF pipeline_is_restarting
       THEN /\ pipeline_is_restarting' = FALSE
            /\ mainpc' = "rebuild"
       ELSE /\ mainpc' = IF bus # NULL THEN "poll" ELSE "sleep"
            /\ UNCHANGED pipeline_is_restarting
    /\ bus_ref' = IF ~should_terminate /\ ~pipeline_is_restarting THEN bus ELSE NULL
    /\ UNCHANGED <<config, state_mutex, conn, nreq, log, acked>>
    /\ UNCHANGED <<pipeline, bus, stats, should_terminate, daemon, buildret,
                   nevents, cycle, unreleased>>
    /\ UNCHANGED <<stats_mutex, probe, config_file, saved, selection, handles, reported>>

\* Line 741: g_usleep(100000), then the loop condition (line 744).
PlainSleep ==
    /\ mainpc = "sleep"
    /\ mainpc' = "loop_top"
    /\ UNCHANGED <<config, state_mutex, conn, nreq, log, acked>>
    /\ UNCHANGED <<pipeline, bus, stats, pipeline_is_restarting, should_terminate,
                   daemon, buildret, nevents, cycle, unreleased>>
    /\ UNCHANGED <<stats_mutex, probe, config_file, saved, selection>>
    /\ UNCHANGED <<handles, bus_ref, reported>>

\* Line 705: the message types the poll is filtered to.
PlainBusMessages ==
    {"GST_MESSAGE_ERROR", "GST_MESSAGE_EOS", "GST_MESSAGE_STATE_CHANGED"}

PlainDocs ==
    { Doc([framerate |-> JInt(30)]),
      Doc([host |-> JStr("10.0.0.5")]),
      Doc([width |-> JInt(1920), framerate |-> JInt(15)]) }

PlainRequests ==
    {GetReq("/stats"), GetReq("/config")}
    \cup {PostReq("/config", ObjectBody(d)) : d \in PlainDocs}
    \cup {PostReq("/config", GarbageBody)}

InitPlain ==
    /\ config = PlainInitConfig
    /\ pipeline = NULL
    /\ bus = NULL
    /\ stats = PlainInitStats
    /\ pipeline_is_restarting = FALSE
    /\ should_terminate = FALSE
    /\ state_mutex = NULL
    /\ daemon = FALSE
    /\ mainpc = "start"
    /\ buildret = "start"
    /\ conn = [t \in Threads |-> IdleConn]
    /\ nreq = 0
    /\ nevents = 0
    /\ cycle = NoCycle
    /\ unreleased = {}
    /\ log = <<PlainInitConfig>>
    /\ acked = 1
    /\ config_file = NULL
    /\ saved = FALSE
    /\ handles = <<>>
    /\ bus_ref = NULL
    /\ reported = NULL
    /\ selection = NULL
    /\ stats_mutex = NULL
    /\ probe = IdleProbe

PlainMain ==
    \/ PlainBuildEnter
    \/ \E outcome \in PlainOutcomes : PlainBuild(outcome)
    \/ PlainLoopTop
    \/ PlainSleep
    \/ PollTimeout
    \/ \E msg \in PlainBusMessages : PollMessage(msg)
    \/ StopDaemon
    \/ Release

PlainHandler(t) ==
    \/ GetConfig(t)
    \/ PlainGetStats(t)
    \/ PostInvalid(t)
    \/ PlainUpdateLock(t)
    \/ PlainUpdateFinish(t)
    \/ PostRespond(t)
    \/ RequestCompleted(t)

NextPlain ==
    \/ PlainMain
    \/ \E size \in PlainBufferSizes, elapsed \in BOOLEAN :
        plain_probe_callback(size, elapsed)
    \/ \E t \in Threads :
        \/ HttpArrive(t, PlainRequests)
        \/ PlainHandler(t)

SpecPlain == InitPlain /\ [][NextPlain]_vars

\* The same controller without the streaming thread, one update and one
\* read as requests.  The main thread runs when it can, and so does a
\* handler that has been called.
PlainLiveRequests ==
    {GetReq("/config"), PostReq("/config", ObjectBody(Doc([framerate |-> JInt(30)])))}

NextPlainLive ==
    \/ PlainMain
    \/ \E t \in Threads :
        \/ HttpArrive(t, PlainLiveRequests)
        \/ GetConfig(t)
        \/ PlainUpdateLock(t)
        \/ PlainUpdateFinish(t)
        \/ PostRespond(t)
        \/ RequestCompleted(t)

SpecPlainLive ==
    /\ InitPlain
    /\ [][NextPlainLive]_vars
    /\ WF_vars(PlainMain)
    /\ \A t \in Threads : WF_vars(PlainHandler(t))

(***************************************************************************)
(* C31: config.framerate is never read while an update is storing the      *)
(* configuration.                                                          *)
(***************************************************************************)
\* A step of the statistics paths that reads config.framerate: GET /stats
\* (line 282), or a buffer for which the rate is computed (line 133).
ReadsFramerate ==
    \/ \E t \in Threads : PlainGetStats(t)
    \/ \E size \in PlainBufferSizes, elapsed \in BOOLEAN :
        plain_probe_callback(size, elapsed) /\ ComputesRate(stats, elapsed)

\* A handler is inside process_config_update with state_mutex held.
WriterInside ==
    \E t \in Threads : state_mutex = Some(t) /\ conn[t].pc = "plain_merging"

\* C31: in the variant that restarts on every update, no step of the
\* streaming thread or of GET /stats reads config.framerate while a POST
\* /config handler holds state_mutex and is storing the configuration: the
\* readers would have to wait for state_mutex.
C31_FramerateReadUnderLock == [][ReadsFramerate => ~WriterInside]_vars

(***************************************************************************)
(* C33: a rebuild that fails leaves the controller up without a pipeline.  *)
(***************************************************************************)
\* The call of line 692 returns FALSE.
RebuildFails ==
    /\ buildret = "rebuild"
    /\ \E outcome \in PlainOutcomes \ {"playing"} : PlainBuild(outcome)

\* The controller is up with no pipeline and no bus.
UpWithoutPipeline ==
    /\ daemon
    /\ ~should_terminate
    /\ pipeline = NULL
    /\ bus = NULL
    /\ mainpc \in {"loop_top", "sleep", "rebuild", "plain_build"}

\* C33: in the variant that restarts on every update, a build failure
\* during reconfiguration does not terminate the process: main is back at
\* the top of its loop with the daemon running, no pipeline and no bus;
\* finding no bus it goes to the sleep of 100 ms; a request that has been
\* called is answered; and a restart asked for while there is no pipeline
\* leads to a new call of build_and_run_pipeline.
C33_FailedRebuildKeepsServing ==
    /\ [][RebuildFails => (mainpc' = "loop_top" /\ UpWithoutPipeline')]_vars
    /\ [][(PlainLoopTop /\ UpWithoutPipeline /\ ~pipeline_is_restarting)
            => mainpc' = "sleep"]_vars
    /\ \A t \in Threads :
        (UpWithoutPipeline /\ conn[t].pc = "called") ~> (conn[t].pc = "sent")
    /\ (UpWithoutPipeline /\ pipeline_is_restarting) ~> (mainpc = "plain_build")

\* A second rebuild is attempted after a failed one, with the daemon up.
C33_Witness ==
    /\ daemon
    /\ mainpc = "plain_build"
    /\ buildret = "rebuild"
    /\ pipeline = NULL
    /\ Len(log) = 3
    /\ \E t \in Threads : conn[t].pc = "sent" /\ conn[t].resp.status = MHD_HTTP_OK

(***************************************************************************)
(* The variant with a persisted configuration (src/unnamed/part_001): an   *)
(* ERROR message in the poll of main, and the cleanup after the loop.      *)
(***************************************************************************)
\* The names the build gives to the pipeline and to its elements (lines
\* 826-978).
ElementNames ==
    {"video-stream-pipeline", "source", "capsfilter", "convert", "encoder",
     "parser", "encoder_caps", "payloader", "sink"}

\* Line 1164: strstr(GST_OBJECT_NAME(msg->src), "encoder").
NameHasEncoder(name) == name \in {"encoder", "encoder_caps"}

\* Lines 1158-1172 and 1212: an ERROR message from the element called name
\* is printed, with the advice to select another encoder when the name
\* holds "encoder"; should_terminate is set and the loop is left.
\* reported keeps the element and whether the advice was printed.
PersistError(name) ==
    /\ mainpc = "poll"
    /\ bus # NULL
    /\ reported' = Some([element |-> name, advice |-> NameHasEncoder(name)])
    /\ should_terminate' = TRUE
    /\ mainpc' = "cleanup"
    /\ UNCHANGED <<config, pipeline, bus, stats, pipeline_is_restarting,
                   state_mutex, daemon, buildret, conn, nreq, nevents, cycle,
                   unreleased, log, acked, config_file, saved, handles,
                   bus_ref, selection, stats_mutex, probe>>

\* Lines 1215-1230: the daemon is stopped, the pipeline and the bus are
\* released, main returns.
PersistCleanup ==
    /\ mainpc = "cleanup"
    /\ daemon' = FALSE
    /\ pipeline' = NULL
    /\ bus' = NULL
    /\ mainpc' = "exited"
    /\ UNCHANGED <<config, stats, pipeline_is_restarting, should_terminate,
                   state_mutex, buildret, conn, nreq, nevents, cycle,
                   unreleased, log, acked, config_file, saved, handles,
                   bus_ref, reported, selection, stats_mutex, probe>>

NextPersistError ==
    \/ PersistLoad
    \/ PersistServe
    \/ \E doc \in PersistedDocs : PersistUpdate(doc)
    \/ \E name \in ElementNames : PersistError(name)
    \/ PersistCleanup

SpecPersistError == InitPersist /\ [][NextPersistError]_vars

(***************************************************************************)
(* C34: the API stays up after an encoder error.                           *)
(***************************************************************************)
\* The advice to select another encoder through /config has been printed.
AdvicePrinted == reported # NULL /\ Get(reported).advice

\* C34: in the variant with a persisted configuration, once main has
\* printed the advice to select a different encoder via the /config API
\* for an ERROR from the encoder element, the HTTP daemon stays up, so that
\* a client can follow the advice.
C34_ServesAfterEncoderError == AdvicePrinted => daemon

(***************************************************************************)
(* The statistics paths of src/f1sh_camera_tx.c statement by statement,    *)
(* with stats_mutex held from one step to the next.                        *)
(***************************************************************************)
LockMaxFrames == 2

StreamingThread == "streaming"

\* ProbeLock that does not take stats_mutex.
ProbeLockFree(size) ==
    /\ pipeline # NULL
    /\ mainpc # "exited"
    /\ probe.pc = "idle"
    /\ stats.frame_count < LockMaxFrames
    /\ probe' = [pc |-> "locked", size |-> size, seen |-> Some(stats)]
    /\ UNCHANGED <<config, state_mutex, conn, nreq, log, acked>>
    /\ UNCHANGED <<pipeline, bus, stats, pipeline_is_restarting, should_terminate,
                   daemon, mainpc, buildret, nevents, cycle, unreleased>>
    /\ UNCHANGED <<stats_mutex, config_file, saved, selection>>
    /\ UNCHANGED <<handles, bus_ref, reported>>

\* udpsink_probe_callback lines 135-139: a buffer arrives, stats_mutex is
\* taken, the size of the buffer is read.
ProbeLock(size) ==
    /\ pipeline # NULL
    /\ mainpc # "exited"
    /\ probe.pc = "idle"
    /\ stats_mutex = NULL
    /\ stats.frame_count < LockMaxFrames
    /\ stats_mutex' = Some(StreamingThread)
    /\ probe' = [pc |-> "locked", size |-> size, seen |-> Some(stats)]
    /\ UNCHANGED <<config, state_mutex, conn, nreq, log, acked>>
    /\ UNCHANGED <<pipeline, bus, stats, pipeline_is_restarting, should_terminate,
                   daemon, mainpc, buildret, nevents, cycle, unreleased>>
    /\ UNCHANGED <<config_file, saved, selection>>
    /\ UNCHANGED <<handles, bus_ref, reported>>

\* Line 140: data->stats.total_bytes += buffer_size.
ProbeBytes ==
    /\ probe.pc = "locked"
    /\ stats' = [stats EXCEPT !.total_bytes = @ + probe.size]
    /\ probe' = [probe EXCEPT !.pc = "counted"]
    /\ UNCHANGED <<config, state_mutex, conn, nreq, log, acked>>
    /\ UNCHANGED <<pipeline, bus, pipeline_is_restarting, should_terminate,
                   daemon, mainpc, buildret, nevents, cycle, unreleased>>
    /\ UNCHANGED <<stats_mutex, config_file, saved, selection>>
    /\ UNCHANGED <<handles, bus_ref, reported>>

\* ProbeFrames that returns with stats_mutex held.
ProbeFramesNoUnlock ==
    /\ probe.pc = "counted"
    /\ stats' = [stats EXCEPT !.frame_count = @ + 1]
    /\ probe' = IdleProbe
    /\ UNCHANGED <<config, state_mutex, conn, nreq, log, acked>>
    /\ UNCHANGED <<pipeline, bus, pipeline_is_restarting, should_terminate,
                   daemon, mainpc, buildret, nevents, cycle, unreleased>>
    /\ UNCHANGED <<stats_mutex, config_file, saved, selection>>
    /\ UNCHANGED <<handles, bus_ref, reported>>

\* Lines 141-152: data->stats.frame_count++, the unlock, the return.
ProbeFrames ==
    /\ probe.pc = "counted"
    /\ stats' = [stats EXCEPT !.frame_count = @ + 1]
    /\ stats_mutex' = NULL
    /\ probe' = IdleProbe
    /\ UNCHANGED <<config, state_mutex, conn, nreq, log, acked>>
    /\ UNCHANGED <<pipeline, bus, pipeline_is_restarting, should_terminate,
                   daemon, mainpc, buildret, nevents, cycle, unreleased>>
    /\ UNCHANGED <<config_file, saved, selection>>
    /\ UNCHANGED <<handles, bus_ref, reported>>

\* handle_get_stats line 268: stats_mutex is taken.
StatsLock(t) ==
    /\ conn[t].pc = "called"
    /\ IsGetRoute(conn[t].req, "/stats")
    /\ stats_mutex = NULL
    /\ stats_mutex' = Some(t)
    /\ conn' = [conn EXCEPT ![t].pc = "stats_locked"]
    /\ UNCHANGED <<config, state_mutex, nreq, log, acked>>
    /\ UNCHANGED mainVars
    /\ UNCHANGED <<probe, config_file, saved, selection>>
    /\ UNCHANGED <<handles, bus_ref, reported>>

\* Lines 270-281: total_bytes is read into the JSON object.
StatsReadBytes(t) ==
    /\ conn[t].pc = "stats_locked"
    /\ conn' = [conn EXCEPT
                  ![t].pc = "stats_bytes",
                  ![t].resp = [NoResp EXCEPT
                                 !.stats = Some([total_bytes |-> JInt(stats.total_bytes),
                                                 frame_count |-> JNull])]]
    /\ UNCHANGED <<config, state_mutex, nreq, log, acked>>
    /\ UNCHANGED mainVars
    /\ UNCHANGED <<stats_mutex, probe, config_file, saved, selection>>
    /\ UNCHANGED <<handles, bus_ref, reported>>

\* Lines 282-292: frame_count is read, stats_mutex is released, the object
\* is sent with 200.
StatsReadFrames(t) ==
    /\ conn[t].pc = "stats_bytes"
    /\ conn' = [conn EXCEPT
                  ![t].pc = "sent",
                  ![t].resp = [NoResp EXCEPT
                                 !.status = MHD_HTTP_OK,
                                 !.stats = Some([Get(conn[t].resp.stats) EXCEPT
                                                   !.frame_count = JInt(stats.frame_count)])]]
    /\ stats_mutex' = NULL
    /\ UNCHANGED <<config, state_mutex, nreq, log, acked>>
    /\ UNCHANGED mainVars
    /\ UNCHANGED <<probe, config_file, saved, selection>>
    /\ UNCHANGED <<handles, bus_ref, reported>>

LockRequests ==
    { GetReq("/stats"), GetReq("/config"),
      PostReq("/config", ObjectBody(Doc([width |-> JInt(1920), height |-> JInt(1080)]))) }

\* The steps of the main thread and of the backend.
LockMain ==
    \/ build_and_run_pipeline(LiveEnvs)
    \/ StateChangeDone
    \/ LoopTop
    \/ PollTimeout
    \/ \E msg \in BusMessages : PollMessage(msg)
    \/ StopDaemon
    \/ Release

\* The steps of the streaming thread.
LockStreaming ==
    \/ \E size \in BufferSizes : ProbeLock(size)
    \/ ProbeBytes
    \/ ProbeFrames

\* The steps of the handler thread t.
LockHandler(t) ==
    \/ HttpArrive(t, LockRequests)
    \/ GetConfig(t)
    \/ PostLock(t)
    \/ PostMerge(t)
    \/ PostDecide(t)
    \/ PostRespond(t)
    \/ StatsLock(t)
    \/ StatsReadBytes(t)
    \/ StatsReadFrames(t)
    \/ RequestCompleted(t)

NextLocks ==
    \/ LockMain
    \/ LockStreaming
    \/ \E t \in Threads : LockHandler(t)

SpecLocks == Init /\ [][NextLocks]_vars

(***************************************************************************)
(* C32: the two counters move together.                                    *)
(***************************************************************************)
\* The step is not the reset of lines 782-788.
NoReset == cycle'.resets = cycle.resets \/ cycle' = NoCycle

\* The pair of counters a GET /stats response carries.
ReportedPair(c) ==
    [total_bytes |-> Get(c.resp.stats).total_bytes,
     frame_count |-> Get(c.resp.stats).frame_count]

\* C32: a step that is not a reset never decreases total_bytes or
\* frame_count; when the streaming thread leaves the probe the counters
\* are those it found when it took stats_mutex, plus the size of its buffer
\* and plus one; and the pair a GET /stats response carries is the pair of
\* counters at the instant the handler finished reading, with no buffer
\* half counted at that instant.
C32_CountersMoveTogether ==
    /\ [][NoReset => /\ stats'.total_bytes >= stats.total_bytes
                     /\ stats'.frame_count >= stats.frame_count]_vars
    /\ [][ProbeFrames =>
            stats' = [total_bytes |-> Get(probe.seen).total_bytes + probe.size,
                      frame_count |-> Get(probe.seen).frame_count + 1]]_vars
    /\ [][\A t \in Threads :
            StatsReadFrames(t) => /\ ReportedPair(conn'[t]) = StatsJson(stats)
                                  /\ probe.pc = "idle"]_vars

\* A GET /stats answered with one buffer counted, while the streaming
\* thread is counting the next one and after a rebuild has reset the
\* counters once.
C32_Witness ==
    /\ probe.pc = "counted"
    /\ Len(handles) = 2
    /\ \E t \in Threads :
        /\ conn[t].pc = "sent"
        /\ conn[t].resp.stats # NULL
        /\ ReportedPair(conn[t]) = StatsJson([total_bytes |-> 2, frame_count |-> 1])

(***************************************************************************)
(* The controller with two clients asking for rebuilds.  The main thread   *)
(* runs when it can, and so does a handler that has been called; nothing   *)
(* is assumed of the backend.                                              *)
(***************************************************************************)
RestartRequests ==
    { GetReq("/config"),
      PostReq("/config", ObjectBody(Doc([width |-> JInt(1920), height |-> JInt(1080)]))),
      PostReq("/config", ObjectBody(Doc([framerate |-> JInt(30)]))) }

NextRestart ==
    \/ MainStep
    \/ StateChangeDone
    \/ \E t \in Threads :
        \/ HttpArrive(t, RestartRequests)
        \/ HandlerStep(t)

SpecRestart ==
    /\ Init
    /\ [][NextRestart]_vars
    /\ WF_vars(MainStep)
    /\ \A t \in Threads : WF_vars(HandlerStep(t))

(***************************************************************************)
(* C35: no restart request is lost.                                        *)
(***************************************************************************)
\* A restart request is pending and main is not inside
\* build_and_run_pipeline.
RestartPending == pipeline_is_restarting /\ ~InBuild

\* main has just entered build_and_run_pipeline and taken state_mutex.
BuildBegins == mainpc = "build_teardown" /\ state_mutex = Some(MainThread)

\* The step in which build_and_run_pipeline reads the configuration.
ReadsConfig == BuildStart(LiveEnvs) \/ BuildFail(LiveEnvs)

\* C35: a restart request that is pending while main is outside
\* build_and_run_pipeline (also between the clearing of the flag at line
\* 882 and the lock of line 506) is followed by the beginning of a build
\* unless the process terminates; and a build reads the configuration with
\* state_mutex held, when it is the result of the last update, and makes
\* the pipeline from it.
C35_RestartNotLost ==
    /\ RestartPending ~> (BuildBegins \/ should_terminate)
    /\ [][ReadsConfig => /\ state_mutex = Some(MainThread)
                         /\ config = log[Len(log)]]_vars
    /\ [][BuildStart(LiveEnvs) =>
            \E env \in LiveEnvs :
                pipeline' = Some(NewPipeline(Get(pipeline').id, log[Len(log)], env))]_vars

\* A second update asked for a restart after main had cleared the flag for
\* the first and before it took state_mutex; the build that followed is
\* making the pipeline.
C35_Witness ==
    /\ mainpc = "build_construct"
    /\ buildret = "rebuild"
    /\ pipeline_is_restarting
    /\ Len(log) = 3
    /\ config.width = 1920
    /\ config.framerate = 30

(***************************************************************************)
(* C36: the running pipeline has the parameters of the configuration.      *)
(***************************************************************************)
\* The controller is idle: a pipeline is live, no restart is pending, no
\* build is in progress and no handler is inside process_config_update.
ControllerIdle ==
    /\ pipeline # NULL
    /\ ~pipeline_is_restarting
    /\ mainpc \in {"loop_top", "poll"}
    /\ ~should_terminate
    /\ state_mutex = NULL

\* The fields of the configuration that the pipeline p does not have the
\* value of.
StaleFields(p, cfg) ==
    {f \in {"host", "port", "width", "height", "framerate", "autofocus",
            "lens_position"} : p[f] # cfg[f]}

\* C36: whenever the controller is idle, the running pipeline was built or
\* patched with the current value of every field of the configuration:
\* host, port, width, height, framerate, autofocus and lens_position.
C36_PipelineMatchesConfig ==
    ControllerIdle => StaleFields(Get(pipeline), config) = {}

(***************************************************************************)
(* C37: the two locks.                                                     *)
(***************************************************************************)
AllThreads == Threads \cup {MainThread, StreamingThread}

\* The locks the thread holds.
Holds(th) ==
    (IF state_mutex = Some(th) THEN {"state_mutex"} ELSE {})
    \cup (IF stats_mutex = Some(th) THEN {"stats_mutex"} ELSE {})

\* The locks the next statements of the thread may take: a handler that
\* has been called, by its route; main before a build, at the top of the
\* loop, in the poll (a STATE_CHANGED message) and before the release takes
\* state_mutex, and while it makes the pipeline it takes stats_mutex for
\* the reset; the streaming thread takes stats_mutex for its next buffer.
Wants(th) ==
    IF th \in Threads
    THEN IF conn[th].pc # "called" THEN {}
         ELSE IF IsGetConfig(conn[th].req) THEN {"state_mutex"}
         ELSE IF IsPostConfig(conn[th].req) /\ JsonLoadb(conn[th].req.body) # NULL
              THEN {"state_mutex"}
         ELSE IF IsGetRoute(conn[th].req, "/stats") THEN {"stats_mutex"}
         ELSE {}
    ELSE IF th = MainThread
    THEN IF mainpc \in {"start", "rebuild", "retry", "loop_top", "poll", "release"}
         THEN {"state_mutex"}
         ELSE IF mainpc = "build_construct" THEN {"stats_mutex"}
         ELSE {}
    ELSE IF probe.pc = "idle" THEN {"stats_mutex"} ELSE {}

\* The thread is outside of every function that takes a lock.
Returned(th) ==
    IF th \in Threads THEN conn[th].pc \in {"idle", "called", "updated", "sent"}
    ELSE IF th = MainThread
    THEN mainpc \notin {"build_teardown", "build_construct", "build_settle"}
    ELSE probe.pc = "idle"

\* A step of a thread that holds a lock, or of the backend that main or
\* the streaming thread waits for while holding one.
HolderStep ==
    \/ \E t \in Threads :
        PostMerge(t) \/ PostDecide(t) \/ StatsReadBytes(t) \/ StatsReadFrames(t)
    \/ ProbeBytes
    \/ ProbeFrames
    \/ BuildTeardown
    \/ BuildFail(LiveEnvs)
    \/ BuildStart(LiveEnvs)
    \/ BuildReturn
    \/ StateChangeDone

\* C37: no thread is about to take a lock it holds; a thread that holds
\* stats_mutex never takes state_mutex, so the two are nested only in the
\* order state_mutex then stats_mutex; a thread that has returned from
\* its function holds no lock; and whenever a lock is held, a thread that
\* holds one, or the backend it waits for, can take a step: no set of
\* threads waits for each other.
C37_LockDiscipline ==
    /\ \A th \in AllThreads :
        /\ Wants(th) \cap Holds(th) = {}
        /\ "stats_mutex" \in Holds(th) => "state_mutex" \notin Wants(th)
        /\ Returned(th) => Holds(th) = {}
    /\ (state_mutex # NULL \/ stats_mutex # NULL) => ENABLED HolderStep

\* main rebuilds with state_mutex held and is about to take stats_mutex
\* for the reset while a GET /stats handler holds stats_mutex.
C37_Witness ==
    /\ state_mutex = Some(MainThread)
    /\ mainpc = "build_construct"
    /\ buildret = "rebuild"
    /\ \E t \in Threads : stats_mutex = Some(t) /\ conn[t].pc = "stats_bytes"

(***************************************************************************)
(* C38: the daemon is stopped before the handles are released.             *)
(***************************************************************************)
\* A handler applies the hot patch to data->pipeline.
Patches(t) == PostDecide(t) /\ pipeline' # pipeline

\* C38: main releases the pipeline and the bus only when the HTTP daemon
\* has been stopped and no handler is running; a handler takes a step only
\* while the daemon is up and main has not reached the release; and a hot
\* patch is applied, with state_mutex held, to a handle that is live.
C38_DaemonStoppedBeforeRelease ==
    /\ [][Release => (~daemon /\ \A t \in Threads : conn[t] = IdleConn)]_vars
    /\ [][HandlerStepTaken => (daemon /\ mainpc \notin {"release", "exited"})]_vars
    /\ [][\A t \in Threads :
            Patches(t) => /\ state_mutex = Some(t)
                          /\ pipeline # NULL
                          /\ handles[Get(pipeline).id] = "live"]_vars

\* The process has shut down after a hot patch: the daemon is stopped, the
\* handle that was patched is destroyed.
C38_Witness ==
    /\ mainpc = "exited"
    /\ ~daemon
    /\ handles = <<"destroyed">>
    /\ Len(log) = 2
    /\ log[2].host # log[1].host
    /\ acked = 2

(***************************************************************************)
(* C39: the pipeline and its bus come and go together.                     *)
(***************************************************************************)
\* main is at the top of the loop and can take state_mutex, it is not
\* terminating and no restart is pending: its next step looks for the bus
\* (lines 896-904).
ReachesPoll ==
    /\ mainpc = "loop_top"
    /\ state_mutex = NULL
    /\ ~should_terminate
    /\ ~pipeline_is_restarting

\* C39: whenever state_mutex is free, data->pipeline is NULL exactly when
\* data->bus is NULL; and whenever main goes on to the event poll, both
\* are not NULL, so that it polls the bus and never takes the branch that
\* sleeps 100 ms for want of a bus.
C39_PipelineIffBus ==
    /\ state_mutex = NULL => ((pipeline = NULL) <=> (bus = NULL))
    /\ ReachesPoll => (pipeline # NULL /\ bus # NULL)

\* main polls the bus of the second pipeline after a rebuild.
C39_Witness ==
    /\ mainpc = "poll"
    /\ state_mutex = NULL
    /\ handles = <<"destroyed", "live">>
    /\ pipeline # NULL
    /\ bus = Some(2)
    /\ bus_ref = Some(2)

====
